---------------------------- MODULE Spec2Model ----------------------------
(***************************************************************************)
(* State-machine model of QuakeDungeonGenerator (src/mapgen.py): one       *)
(* generation run, from construction through generate() to export_map().   *)
(*                                                                         *)
(* Lengths are Quake units.  Brush coordinates are kept in hundredths of   *)
(* a unit, so that the fractional factors of the source (0.4, 0.33, 0.3,   *)
(* ...) stay exact integers.                                               *)
(***************************************************************************)
EXTENDS Integers, Sequences, FiniteSets, TLC

(***************************************************************************)
(* Bounds of the model: the configuration handed to the constructor.       *)
(***************************************************************************)
GridSize == 3
RoomMin == 1
RoomMax == 2
NumRooms == 3
GeomNumRooms == 2
\* a grid where two rooms can share a boundary three cells long
WideGridSize == 4
WideRoomMin == 2
WideRoomMax == 3
\* the rooms of a layout handed to _create_doors
CornerNumRooms == 5

(***************************************************************************)
(* Program constants (QuakeDungeonGenerator.__init__ and method defaults). *)
(***************************************************************************)
cell_size == 256
wall_thickness == 16
floor_height == 0
ceiling_height == 192
door_width == 64
door_thickness == 8
door_height == 128
max_attempts == 50

None == [kind |-> "none"]

\* a length in units, as hundredths of a unit
S(units) == units * 100

(***************************************************************************)
(* The room type table, self.room_types.  Only the keys that the layout    *)
(* and the geometry read are kept; an absent key is its .get() default.    *)
(***************************************************************************)
BaseType(smin, smax) ==
    [size_min |-> smin, size_max |-> smax, shape |-> "none",
     has_pit |-> FALSE, has_liquid |-> FALSE,
     has_pillars |-> FALSE, pillar_count |-> 4,
     has_platforms |-> FALSE, platform_count |-> 3,
     liquid_type |-> "*lava1",
     floor_offset |-> 0, ceiling_texture |-> "none"]

Max2(a, b) == IF a >= b THEN a ELSE b
Min2(a, b) == IF a <= b THEN a ELSE b

\* int(v * 1.2), int(v * 2.0), int(v * 0.5), int(v * 0.8), int(v * 1.5)
\* for the small non-negative v of the model (checked against Python).
Int12(v) == (12 * v) \div 10
Int20(v) == 2 * v
Int05(v) == v \div 2
Int08(v) == (8 * v) \div 10
Int15(v) == (15 * v) \div 10

PlainLike ==
    {"plain", "dark", "bright", "colored_red", "colored_blue", "colored_green",
     "multi_light", "ambush", "safe_room", "empty", "horde", "flickering",
     "trap_room", "crypt"}

AllRoomTypeNames ==
    PlainLike \cup
    {"arena", "closet", "hallway", "outdoor", "pit_room", "lava_pool",
     "slime_pool", "pillar_room", "platform_room", "sunken_room",
     "raised_room", "water_pool", "alcove_room", "octagonal", "vault",
     "bridge_room", "flooded", "furnace", "narrow_passage", "cathedral",
     "toxic", "gallery", "spiral"}

room_types(rmin, rmax) ==
    [t \in AllRoomTypeNames |->
       CASE t \in PlainLike -> BaseType(rmin, rmax)
         [] t = "arena" -> BaseType(Int12(rmax), Int20(rmax))
         [] t = "closet" -> BaseType(Max2(1, Int05(rmin)), Int12(rmin))
         [] t = "hallway" -> [BaseType(rmin, rmax) EXCEPT !.shape = "hallway"]
         [] t = "outdoor" ->
              [BaseType(Int08(rmax), Int15(rmax)) EXCEPT !.ceiling_texture = "sky1"]
         [] t = "pit_room" -> [BaseType(rmin + 1, rmax) EXCEPT !.has_pit = TRUE]
         [] t = "lava_pool" -> [BaseType(rmin + 1, rmax) EXCEPT !.has_liquid = TRUE]
         [] t = "slime_pool" ->
              [BaseType(rmin + 1, rmax) EXCEPT !.has_liquid = TRUE, !.liquid_type = "*slime0"]
         [] t = "water_pool" ->
              [BaseType(rmin + 1, rmax) EXCEPT !.has_liquid = TRUE, !.liquid_type = "*water0"]
         [] t = "pillar_room" ->
              [BaseType(rmin + 2, rmax) EXCEPT !.has_pillars = TRUE, !.pillar_count = 4]
         [] t = "platform_room" ->
              [BaseType(rmin + 1, rmax) EXCEPT !.has_platforms = TRUE, !.platform_count = 3]
         [] t = "sunken_room" -> [BaseType(rmin, rmax) EXCEPT !.floor_offset = -64]
         [] t = "raised_room" -> [BaseType(rmin, rmax) EXCEPT !.floor_offset = 64]
         [] t = "alcove_room" -> BaseType(rmin + 1, rmax)
         [] t = "octagonal" -> [BaseType(rmin + 1, rmax) EXCEPT !.shape = "octagon"]
         [] t = "vault" -> BaseType(rmin, Int08(rmax))
         [] t = "bridge_room" -> [BaseType(rmin + 2, rmax) EXCEPT !.has_liquid = TRUE]
         [] t = "flooded" ->
              [BaseType(rmin, rmax) EXCEPT !.has_liquid = TRUE, !.liquid_type = "*water0"]
         [] t = "furnace" -> [BaseType(rmin, rmax) EXCEPT !.has_liquid = TRUE]
         [] t = "toxic" ->
              [BaseType(rmin, rmax) EXCEPT !.has_liquid = TRUE, !.liquid_type = "*slime0"]
         [] t = "narrow_passage" ->
              [BaseType(rmin, Int15(rmax)) EXCEPT !.shape = "narrow"]
         [] t = "cathedral" ->
              [BaseType(Int12(rmax), Int20(rmax)) EXCEPT !.has_pillars = TRUE, !.pillar_count = 6]
         [] t = "gallery" ->
              [BaseType(rmin + 1, rmax) EXCEPT !.has_platforms = TRUE, !.platform_count = 2]
         [] t = "spiral" -> [BaseType(rmin + 1, rmax) EXCEPT !.shape = "spiral"]]

(***************************************************************************)
(* The theme table, self.texture_themes, and self.theme_names.             *)
(***************************************************************************)
texture_themes ==
    [medieval_stone |->
       [floor |-> <<"sfloor1_2", "sfloor4_1", "sfloor4_2", "ground1_6">>,
        wall |-> <<"stone1_3", "stone1_5", "stone1_7", "rock3_2", "rock4_1">>,
        ceiling |-> <<"ceiling1_3", "ceiling4", "ceil1_1">>,
        related |-> <<"brick", "stone_dark", "dungeon">>],
     brick |->
       [floor |-> <<"sfloor4_4", "sfloor4_6", "ground1_7">>,
        wall |-> <<"bricka2_1", "bricka2_2", "bricka2_4", "bricka2_6">>,
        ceiling |-> <<"ceiling1_3", "ceiling4">>,
        related |-> <<"medieval_stone", "city", "stone_dark">>],
     wood |->
       [floor |-> <<"woodflr1_2", "woodflr1_4", "woodflr1_5">>,
        wall |-> <<"wood1_1", "wood1_5", "wood1_7", "wwood1_5", "wwood1_7">>,
        ceiling |-> <<"wceiling4", "wceiling5", "ceiling4">>,
        related |-> <<"medieval_stone", "wizard", "dungeon">>],
     metal_basic |->
       [floor |-> <<"metflor2_1", "sfloor4_7">>,
        wall |-> <<"metal1_1", "metal1_2", "metal1_3", "metal2_1", "metal2_2">>,
        ceiling |-> <<"ceiling4", "ceiling5">>,
        related |-> <<"metal_tech", "metal_industrial", "city">>],
     metal_tech |->
       [floor |-> <<"metflor2_1", "afloor3_1">>,
        wall |-> <<"tech01_1", "tech02_1", "tech04_1", "tech04_2", "comp1_1", "comp1_2">>,
        ceiling |-> <<"ceiling5", "ceiling4">>,
        related |-> <<"metal_basic", "metal_industrial", "city">>],
     metal_industrial |->
       [floor |-> <<"metflor2_1", "sfloor4_8">>,
        wall |-> <<"metal4_2", "metal4_4", "metal5_1", "metal5_2", "wmet2_1", "wmet4_2">>,
        ceiling |-> <<"ceiling5">>,
        related |-> <<"metal_basic", "metal_tech">>],
     city |->
       [floor |-> <<"ground1_1", "ground1_5", "ground1_8", "afloor1_3">>,
        wall |-> <<"city4_1", "city5_1", "city2_1", "city4_5", "city5_2">>,
        ceiling |-> <<"ceiling4", "ceiling5">>,
        related |-> <<"brick", "metal_basic", "metal_tech">>],
     dungeon |->
       [floor |-> <<"ground1_2", "sfloor1_2", "sfloor4_1">>,
        wall |-> <<"grave01_1", "grave02_1", "dung01_1", "dung01_2", "dung01_3">>,
        ceiling |-> <<"ceiling1_3", "ceil1_1">>,
        related |-> <<"stone_dark", "medieval_stone", "wood">>],
     stone_dark |->
       [floor |-> <<"sfloor4_2", "ground1_6">>,
        wall |-> <<"rock3_7", "rock3_8", "rock4_2", "rock5_2", "stone1_7">>,
        ceiling |-> <<"ceiling1_3", "ceil1_1">>,
        related |-> <<"medieval_stone", "dungeon", "brick">>],
     wizard |->
       [floor |-> <<"azfloor1_1", "woodflr1_2">>,
        wall |-> <<"wizwood1_2", "wizwood1_4", "wizwood1_6", "wizmet1_2", "wizmet1_4">>,
        ceiling |-> <<"ceiling1_3", "wceiling4">>,
        related |-> <<"wood", "medieval_stone", "metal_basic">>],
     copper |->
       [floor |-> <<"sfloor4_5", "metflor2_1">>,
        wall |-> <<"cop1_1", "cop1_2", "cop1_4", "cop2_1", "cop3_1", "ecop1_1">>,
        ceiling |-> <<"ceiling4", "ceiling5">>,
        related |-> <<"metal_basic", "metal_industrial", "wizard">>]]

theme_names ==
    <<"medieval_stone", "brick", "wood", "metal_basic", "metal_tech",
      "metal_industrial", "city", "dungeon", "stone_dark", "wizard", "copper">>

(***************************************************************************)
(* self.texture_pools as __init__ builds it.                               *)
(***************************************************************************)
pool_names ==
    {"floor", "ceiling", "wall_metal", "wall_stone", "wall_brick",
     "wall_wood", "wall_city", "wall_tech", "wall_dungeon", "wall_misc",
     "wall", "door", "light", "liquid", "platform", "switch",
     "slipgate", "key", "decorative", "crate", "ammo_boxes", "special"}

default_texture_pools ==
    [p \in pool_names |->
       CASE p = "floor" -> <<"ground1_1", "ground1_2",
              "ground1_5", "ground1_6", "ground1_7", "ground1_8",
              "floor01_5", "afloor1_3", "afloor1_4", "afloor1_8",
              "afloor3_1", "sfloor1_2", "sfloor3_2", "sfloor4_1",
              "sfloor4_2", "sfloor4_4", "sfloor4_5", "sfloor4_6",
              "sfloor4_7", "sfloor4_8", "woodflr1_2",
              "woodflr1_4", "woodflr1_5", "azfloor1_1",
              "metflor2_1", "wgrass1_1">>
         [] p = "ceiling" -> <<"ceiling1_3", "ceiling4",
              "ceiling5", "ceil1_1", "wceiling4", "wceiling5",
              "sky1", "sky4">>
         [] p = "wall_metal" -> <<"metal1_1", "metal1_2",
              "metal1_3", "metal1_4", "metal1_5", "metal1_6",
              "metal1_7", "metal2_1", "metal2_2", "metal2_3",
              "metal2_4", "metal2_5", "metal2_6", "metal2_7",
              "metal2_8", "metal3_2", "metal4_2", "metal4_3",
              "metal4_4", "metal4_5", "metal4_6", "metal4_7",
              "metal4_8", "metal5_1", "metal5_2", "metal5_3",
              "metal5_4", "metal5_5", "metal5_6", "metal5_8",
              "metal5_20", "metal5_21", "metal5_40", "metal5_80",
              "metal6_1", "metal6_2", "metal6_3", "metal6_4",
              "mmetal1_1", "mmetal1_2", "mmetal1_3", "mmetal1_5",
              "mmetal1_6", "mmetal1_7", "mmetal1_8", "metalt1_1",
              "metalt1_2", "metalt1_7", "metalt2_1", "metalt2_2",
              "metalt2_3", "metalt2_4", "metalt2_5", "metalt2_6",
              "metalt2_7", "metalt2_8", "wmet1_1", "wmet2_1",
              "wmet2_2", "wmet2_3", "wmet2_4", "wmet2_6",
              "wmet3_1", "wmet3_3", "wmet3_4", "wmet4_2",
              "wmet4_3", "wmet4_4", "wmet4_5", "wmet4_6",
              "wmet4_7", "wmet4_8", "lgmetal", "lgmetal2",
              "lgmetal3", "lgmetal4", "emetal1_3", "nmetal2_1",
              "nmetal2_6", "met5_1", "met5_2", "met5_3",
              "wizmet1_1", "wizmet1_2", "wizmet1_3", "wizmet1_4",
              "wizmet1_5", "wizmet1_6", "wizmet1_7", "wizmet1_8">>
         [] p = "wall_stone" -> <<"rock1_2", "rock3_2", "rock3_7",
              "rock3_8", "rock4_1", "rock4_2", "rock5_2",
              "stone1_3", "stone1_5", "stone1_7">>
         [] p = "wall_brick" -> <<"bricka2_1", "bricka2_2",
              "bricka2_4", "bricka2_6", "wbrick1_4", "wbrick1_5">>
         [] p = "wall_wood" -> <<"wood1_1", "wood1_5", "wood1_7",
              "wood1_8", "wwood1_5", "wwood1_7", "wizwood1_2",
              "wizwood1_3", "wizwood1_4", "wizwood1_5",
              "wizwood1_6", "wizwood1_7", "wizwood1_8">>
         [] p = "wall_city" -> <<"city1_4", "city1_7", "city2_1",
              "city2_2", "city2_3", "city2_5", "city2_6",
              "city2_7", "city2_8", "city3_2", "city3_4",
              "city4_1", "city4_2", "city4_5", "city4_6",
              "city4_7", "city4_8", "city5_1", "city5_2",
              "city5_3", "city5_4", "city5_6", "city5_7",
              "city5_8", "city6_3", "city6_4", "city6_7",
              "city6_8", "city8_2", "citya1_1">>
         [] p = "wall_tech" -> <<"tech01_1", "tech01_2",
              "tech01_3", "tech01_5", "tech01_6", "tech01_7",
              "tech01_9", "tech02_1", "tech02_2", "tech02_3",
              "tech02_5", "tech02_6", "tech02_7", "tech03_1",
              "tech03_2", "tech04_1", "tech04_2", "tech04_3",
              "tech04_4", "tech04_5", "tech04_6", "tech04_7",
              "tech04_8", "tech05_1", "tech05_2", "tech06_1",
              "tech06_2", "tech07_1", "tech07_2", "tech08_1",
              "tech08_2", "tech09_3", "tech09_4", "tech10_1",
              "tech10_3", "tech11_1", "tech11_2", "tech12_1",
              "tech13_2", "tech14_1", "tech14_2", "comp1_1",
              "comp1_2", "comp1_3", "comp1_4", "comp1_5",
              "comp1_6", "comp1_7", "comp1_8">>
         [] p = "wall_dungeon" -> <<"grave01_1", "grave01_3",
              "grave02_1", "grave02_2", "grave02_3", "grave02_4",
              "grave02_5", "grave02_6", "grave02_7", "grave03_1",
              "grave03_2", "grave03_3", "grave03_4", "grave03_5",
              "grave03_6", "grave03_7", "dung01_1", "dung01_2",
              "dung01_3", "dung01_4", "dung01_5", "dung02_1",
              "dung02_5">>
         [] p = "wall_misc" -> <<"wall3_4", "wall5_4", "wall9_3",
              "wall9_8", "wall11_2", "wall11_6", "wall14_5",
              "wall14_6", "wall16_7", "twall1_1", "twall1_2",
              "twall1_4", "twall2_1", "twall2_2", "twall2_3",
              "twall2_5", "twall2_6", "twall3_1", "twall5_1",
              "twall5_2", "twall5_3", "uwall1_2", "uwall1_3",
              "uwall1_4", "unwall1_8", "elwall1_1", "elwall2_4",
              "wwall1_1", "azwall1_5", "azwall3_1", "azwall3_2",
              "wgrnd1_5", "wgrnd1_6", "wgrnd1_8", "church1_2",
              "church7", "wiz1_1", "wiz1_4", "cop1_1", "cop1_2",
              "cop1_3", "cop1_4", "cop1_5", "cop1_6", "cop1_7",
              "cop1_8", "cop2_1", "cop2_2", "cop2_3", "cop2_4",
              "cop2_5", "cop2_6", "cop3_1", "cop3_2", "cop3_4",
              "cop4_3", "cop4_5", "ecop1_1", "ecop1_4", "ecop1_6",
              "ecop1_7", "ecop1_8", "dem4_1", "dem4_4", "dem5_3",
              "demc4_4", "wswamp1_2", "wswamp1_4", "wswamp2_1",
              "wswamp2_2", "vine1_2">>
         [] p = "wall" -> <<"metal1_1", "metal1_2", "metal2_1",
              "metal2_2", "rock3_2", "rock4_1", "stone1_3",
              "stone1_5", "bricka2_1", "bricka2_2", "wood1_1",
              "wood1_5", "city4_1", "city5_1", "tech01_1",
              "tech02_1", "wall9_3", "wall11_2">>
         [] p = "door" -> <<"door03_3">>
         [] p = "light" -> <<"light1_1", "light1_2", "light1_3",
              "light1_4", "light1_5", "light1_7", "light1_8",
              "light3_3", "light3_5", "light3_6", "light3_7",
              "light3_8", "tlight01", "tlight01_2", "tlight02",
              "tlight03", "tlight05", "tlight07", "tlight08",
              "tlight09", "tlight10", "tlight11">>
         [] p = "liquid" -> <<"*04mwat1", "*04mwat2", "*04water1",
              "*04water2", "*04awater1", "*water0", "*water1",
              "*water2", "*water10", "*water11", "*water12",
              "*lava1", "*slime", "*slime0", "*slime1",
              "*teleport">>
         [] p = "platform" -> <<"plat_top1", "plat_top2",
              "plat_top10", "plat_top11", "plat_top12",
              "plat_top13", "plat_top14", "plat_top15",
              "plat_top16", "plat_top17", "plat_top18",
              "plat_side1", "plat_stem">>
         [] p = "switch" -> <<"switch_1", "swtch1_1", "mswtch_2",
              "mswtch_3", "mswtch_4", "wswitch1", "azswitch3",
              "+0butn", "+1butn", "+2butn", "+3butn", "+abutn",
              "+0button", "+1button", "+2button", "+3button",
              "+abutton", "+0butnn", "+1butnn", "+2butnn",
              "+3butnn", "+abutnn", "+0basebtn", "+1basebtn",
              "+abasebtn", "basebutn3", "+0mtlsw", "+1mtlsw",
              "+2mtlsw", "+3mtlsw", "+amtlsw", "+0floorsw",
              "+1floorsw", "+2floorsw", "+3floorsw", "+afloorsw",
              "+0shoot", "+1shoot", "+2shoot", "+3shoot",
              "+ashoot", "+0light01", "+1light01", "+2light01">>
         [] p = "slipgate" -> <<"+0slip", "+1slip", "+2slip",
              "+3slip", "+4slip", "+5slip", "+6slip", "slip1",
              "slip2", "+0slipbot", "+0sliptop", "slipside",
              "slipbotsd", "sliptopsd", "sliplite">>
         [] p = "key" -> <<"key01_1", "key01_2", "key01_3",
              "key02_1", "key02_2", "key03_1", "key03_2",
              "key03_3", "wkey02_1", "wkey02_2", "wkey02_3">>
         [] p = "decorative" -> <<"column01_3", "column01_4",
              "column1_2", "column1_4", "column1_5", "arch7",
              "carch02", "carch03", "carch04_1", "carch04_2",
              "warch05", "window030", "window031", "window01_1",
              "window01_2", "window01_3", "window01_4",
              "window02_1", "window03", "window1_2", "window1_3",
              "window1_4", "wizwin1_2", "wizwin1_8", "altar1_1",
              "altar1_3", "altar1_4", "altar1_6", "altar1_7",
              "altar1_8", "altarb_1", "altarb_2", "altarc_1",
              "rune1_1", "rune1_4", "rune1_5", "rune1_6",
              "rune1_7", "rune2_1", "rune2_2", "rune2_3",
              "rune2_4", "rune2_5", "rune_a", "enter01",
              "wenter01", "exit01", "exit02_2", "exit02_3",
              "wexit01", "z_exit">>
         [] p = "crate" -> <<"crate0_side", "crate0_top",
              "crate1_side", "crate1_top", "+0_box_side",
              "+0_box_top", "+1_box_side", "+1_box_top">>
         [] p = "ammo_boxes" -> <<"nail0sid", "nail0top",
              "nail1sid", "nail1top", "shot0sid", "shot0top",
              "shot1sid", "shot1top", "rock0sid", "rock1sid",
              "rockettop", "batt0sid", "batt0top", "batt1sid",
              "batt1top", "med3_0", "med3_1", "med100",
              "+0_med25", "+1_med25", "+2_med25", "+3_med25",
              "+0_med25s", "+1_med25s", "+0_med100", "+1_med100",
              "+2_med100", "+3_med100">>
         [] p = "special" -> <<"trigger", "clip", "black",
              "quake", "tele_top", "bodiesa2_1", "bodiesa2_4",
              "bodiesa3_1", "bodiesa3_2", "bodiesa3_3", "skill0",
              "skill1", "skill2", "skill3", "arrow_m", "+0planet",
              "+1planet", "+2planet", "+3planet", "dopefish",
              "dopeback", "muh_bad", "raven", "m5_3", "m5_5",
              "m5_8", "az1_6">>]

(***************************************************************************)
(* The room type keys export_map reads for lights and spawned entities.    *)
(***************************************************************************)
multi_lights(t) ==
    t \in {"multi_light", "safe_room", "horde", "arena", "hallway",
           "pillar_room", "platform_room", "alcove_room", "octagonal",
           "vault", "bridge_room", "furnace", "narrow_passage", "cathedral",
           "gallery", "spiral"}

entity_mode(t) ==
    CASE t \in {"ambush", "pillar_room", "flickering", "trap_room"} -> "ambush"
      [] t \in {"safe_room", "vault"} -> "supplies_only"
      [] t = "empty" -> "none"
      [] t \in {"horde", "crypt"} -> "horde"
      [] t \in {"arena", "cathedral"} -> "boss"
      [] t \in {"closet", "flooded", "narrow_passage"} -> "minimal"
      [] OTHER -> "normal"

\* entity_multiplier in tenths (.get default 2.5)
entity_multiplier10(t) == IF t = "trap_room" THEN 15 ELSE 25

(***************************************************************************)
(* State.                                                                  *)
(*   grid_size .. texture_variety  constructor arguments                   *)
(*   room_type_names   the type names _select_room_type draws from         *)
(*   tex_idx           list positions the theme/texture draws may return   *)
(*   grid, rooms, doors, teleporters, end_goal, last_theme   the session   *)
(*   pc, placed        position in generate() / export_map()               *)
(*   brushes           the solids written by export_map, in file order     *)
(*   entities          the point entities written by export_map, in order   *)
(*   spawn_entities    constructor argument                                 *)
(*   texture_pools     self.texture_pools                                   *)
(*   calls, call       number of set_texture_pool calls made, and the last  *)
(***************************************************************************)
VARIABLES grid_size, room_min, room_max, num_rooms, texture_variety,
          room_type_names, tex_idx,
          grid, rooms, doors, teleporters, end_goal, last_theme,
          pc, placed, brushes,
          entities, spawn_entities, texture_pools, calls, call

args == <<grid_size, room_min, room_max, num_rooms, texture_variety,
          room_type_names, tex_idx, spawn_entities>>
config == <<args, texture_pools, calls, call>>
vars == <<grid_size, room_min, room_max, num_rooms, texture_variety,
          room_type_names, tex_idx,
          grid, rooms, doors, teleporters, end_goal, last_theme,
          pc, placed, brushes,
          entities, spawn_entities, texture_pools, calls, call>>

Cells == 0 .. (grid_size - 1)

\* random.choice(lst) of a theme or texture list, restricted to tex_idx
Choices(lst) == {lst[i] : i \in (tex_idx \cap (1 .. Len(lst)))}

SeqRange(s) == {s[i] : i \in 1 .. Len(s)}

(***************************************************************************)
(* _choose_next_theme: the themes the next room may get.                   *)
(***************************************************************************)
_choose_next_theme ==
    IF last_theme = "none" \/ ~texture_variety
    THEN Choices(theme_names)
    ELSE \* random() < 0.7 and a non-empty related list, or any theme
         (IF Len(texture_themes[last_theme].related) > 0
          THEN Choices(texture_themes[last_theme].related)
          ELSE {})
         \cup Choices(theme_names)

(***************************************************************************)
(* _assign_room_textures: the records a room may become once its theme is  *)
(* set (the theme is always a key of texture_themes here).                 *)
(***************************************************************************)
_assign_room_textures_theme_only(room, theme) ==
    LET th == texture_themes[theme]
        rt == room_types(room_min, room_max)[room.type]
    IN {[x |-> room.x, y |-> room.y, width |-> room.width, height |-> room.height,
         type |-> room.type, theme |-> theme,
         floor_texture |-> ft, wall_texture |-> wt,
         ceiling_texture |-> ct] :
           ft \in Choices(th.floor), wt \in Choices(th.wall), ct \in Choices(th.ceiling)}

_assign_room_textures(room, theme) ==
    LET th == texture_themes[theme]
        rt == room_types(room_min, room_max)[room.type]
    IN {[x |-> room.x, y |-> room.y, width |-> room.width, height |-> room.height,
         type |-> room.type, theme |-> theme,
         floor_texture |-> ft, wall_texture |-> wt,
         ceiling_texture |-> IF rt.ceiling_texture # "none"
                             THEN rt.ceiling_texture ELSE ct] :
           ft \in Choices(th.floor), wt \in Choices(th.wall), ct \in Choices(th.ceiling)}

(***************************************************************************)
(* _get_room_dimensions: the (width, height) draws of one attempt, or      *)
(* "raise" when random.randint is handed an empty range.                   *)
(***************************************************************************)
_get_room_dimensions(room_type_name) ==
    LET rt == room_types(room_min, room_max)[room_type_name]
    IN IF rt.shape = "hallway"
       THEN IF rt.size_min * 2 > rt.size_max * 2
            THEN [kind |-> "raise", dims |-> {}]
            ELSE [kind |-> "ok",
                  dims |-> {<<w, h>> : w \in (rt.size_min * 2) .. (rt.size_max * 2),
                                       h \in 1 .. 2}
                           \cup {<<w, h>> : w \in 1 .. 2,
                                            h \in (rt.size_min * 2) .. (rt.size_max * 2)}]
       ELSE IF rt.size_min > rt.size_max
            THEN [kind |-> "raise", dims |-> {}]
            ELSE [kind |-> "ok",
                  dims |-> {<<w, h>> : w \in rt.size_min .. rt.size_max,
                                       h \in rt.size_min .. rt.size_max}]

\* _is_space_free looking at the top-left cell only
_is_space_free_corner_only(x, y, width, height) ==
    IF x + width > grid_size \/ y + height > grid_size
    THEN FALSE
    ELSE ~grid[y][x]

(***************************************************************************)
(* _is_space_free                                                          *)
(***************************************************************************)
_is_space_free(x, y, width, height) ==
    IF x + width > grid_size \/ y + height > grid_size
    THEN FALSE
    ELSE \A dy \in 0 .. (height - 1) : \A dx \in 0 .. (width - 1) :
            ~grid[y + dy][x + dx]

(***************************************************************************)
(* One pass of the attempt loop of _place_random_room: the set of its      *)
(* outcomes over all draws: a placed rectangle, "retry" (continue or       *)
(* space not free) or "raise".                                             *)
(***************************************************************************)
FitsGrid(w, h) == ~(w >= grid_size \/ h >= grid_size)

\* the returned dict with width and height exchanged
PlacedRoomSwapped(x, y, width, height, room_type_name) ==
    [kind |-> "room", x |-> x, y |-> y, width |-> height, height |-> width,
     type |-> room_type_name]

\* the dict a successful attempt returns
PlacedRoom(x, y, width, height, room_type_name) ==
    [kind |-> "room", x |-> x, y |-> y, width |-> width, height |-> height,
     type |-> room_type_name]

\* an attempt that returns its rectangle without asking _is_space_free
AttemptAnywhere(room_type_name) ==
    LET d == _get_room_dimensions(room_type_name)
    IN IF d.kind = "raise"
       THEN {[kind |-> "raise"]}
       ELSE {[kind |-> "retry"] : wh \in {p \in d.dims : ~FitsGrid(p[1], p[2])}}
            \cup
            UNION {{PlacedRoom(x, y, wh[1], wh[2], room_type_name) :
                       x \in 0 .. (grid_size - wh[1]),
                       y \in 0 .. (grid_size - wh[2])} :
                   wh \in {p \in d.dims : FitsGrid(p[1], p[2])}}

Attempt(room_type_name) ==
    LET d == _get_room_dimensions(room_type_name)
    IN IF d.kind = "raise"
       THEN {[kind |-> "raise"]}
       ELSE {[kind |-> "retry"] : wh \in {p \in d.dims : ~FitsGrid(p[1], p[2])}}
            \cup
            UNION {{IF _is_space_free(x, y, wh[1], wh[2])
                    THEN PlacedRoom(x, y, wh[1], wh[2], room_type_name)
                    ELSE [kind |-> "retry"] :
                       x \in 0 .. (grid_size - wh[1]),
                       y \in 0 .. (grid_size - wh[2])} :
                   wh \in {p \in d.dims : FitsGrid(p[1], p[2])}}

RECURSIVE AttemptLoop(_, _)
AttemptLoop(outcomes, attempt) ==
    IF attempt = max_attempts
    THEN {None}
    ELSE {o \in outcomes : o.kind # "retry"}
         \cup (IF [kind |-> "retry"] \in outcomes
               THEN AttemptLoop(outcomes, attempt + 1)
               ELSE {})

\* the numbers of candidate draws the loop may have made when it returns
RECURSIVE AttemptCounts(_, _)
AttemptCounts(outcomes, attempt) ==
    IF attempt = max_attempts
    THEN {attempt}
    ELSE (IF \E o \in outcomes : o.kind # "retry" THEN {attempt + 1} ELSE {})
         \cup (IF [kind |-> "retry"] \in outcomes
               THEN AttemptCounts(outcomes, attempt + 1)
               ELSE {})

\* every result _place_random_room may return (a room, None) or "raise"
_place_random_room ==
    UNION {AttemptLoop(Attempt(t), 0) : t \in room_type_names}

\* the marking loop reduced to the top-left cell
MarkGridCornerOnly(room) ==
    [y \in Cells |-> [x \in Cells |->
        IF room.y = y /\ room.x = x THEN TRUE ELSE grid[y][x]]]

MarkGrid(room) ==
    [y \in Cells |-> [x \in Cells |->
        IF /\ room.y <= y /\ y < room.y + room.height
           /\ room.x <= x /\ x < room.x + room.width
        THEN TRUE ELSE grid[y][x]]]


(***************************************************************************)
(* Rooms carry the source's 0-based indices.                               *)
(***************************************************************************)
NRooms == Len(rooms)
RoomIdx == 0 .. (NRooms - 1)
Room(i) == rooms[i + 1]

RoomCells(room) ==
    {<<x, y>> : x \in room.x .. (room.x + room.width - 1),
                y \in room.y .. (room.y + room.height - 1)}

(***************************************************************************)
(* _build_room_map: a later room overwrites an earlier one.                *)
(***************************************************************************)
SetMax(set) == CHOOSE m \in set : \A n \in set : n <= m

_build_room_map ==
    [y \in Cells |-> [x \in Cells |->
        LET owners == {i \in RoomIdx : <<x, y>> \in RoomCells(Room(i))}
        IN IF owners = {} THEN -1 ELSE SetMax(owners)]]

(***************************************************************************)
(* _find_adjacent_rooms                                                    *)
(***************************************************************************)
Adj(direction, px, py) ==
    [kind |-> "adj", direction |-> direction, position |-> <<px, py>>]

YOverlapStart(room1, room2) == Max2(room1.y, room2.y)
YOverlapEnd(room1, room2) ==
    Min2(room1.y + room1.height, room2.y + room2.height)
XOverlapStart(room1, room2) == Max2(room1.x, room2.x)
XOverlapEnd(room1, room2) ==
    Min2(room1.x + room1.width, room2.x + room2.width)

\* the north-south part without its second branch
NorthSouthOneWay(room1, room2) ==
    IF room1.y + room1.height = room2.y
    THEN IF XOverlapEnd(room1, room2) > XOverlapStart(room1, room2)
         THEN Adj("south",
                  (XOverlapStart(room1, room2) + XOverlapEnd(room1, room2)) \div 2,
                  room1.y + room1.height - 1)
         ELSE None
    ELSE None

NorthSouth(room1, room2) ==
    IF room1.y + room1.height = room2.y
    THEN IF XOverlapEnd(room1, room2) > XOverlapStart(room1, room2)
         THEN Adj("south",
                  (XOverlapStart(room1, room2) + XOverlapEnd(room1, room2)) \div 2,
                  room1.y + room1.height - 1)
         ELSE None
    ELSE IF room2.y + room2.height = room1.y
    THEN IF XOverlapEnd(room1, room2) > XOverlapStart(room1, room2)
         THEN Adj("north",
                  (XOverlapStart(room1, room2) + XOverlapEnd(room1, room2)) \div 2,
                  room1.y)
         ELSE None
    ELSE None

_find_adjacent_rooms(room1, room2) ==
    IF room1.x + room1.width = room2.x
    THEN IF YOverlapEnd(room1, room2) > YOverlapStart(room1, room2)
         THEN Adj("east", room1.x + room1.width - 1,
                  (YOverlapStart(room1, room2) + YOverlapEnd(room1, room2)) \div 2)
         ELSE NorthSouth(room1, room2)
    ELSE IF room2.x + room2.width = room1.x
    THEN IF YOverlapEnd(room1, room2) > YOverlapStart(room1, room2)
         THEN Adj("west", room1.x,
                  (YOverlapStart(room1, room2) + YOverlapEnd(room1, room2)) \div 2)
         ELSE NorthSouth(room1, room2)
    ELSE NorthSouth(room1, room2)

(***************************************************************************)
(* _is_door_at_corner_intersection(door_x, door_y), positions in units.    *)
(***************************************************************************)
Abs(n) == IF n < 0 THEN -n ELSE n

\* Python round(u / cell_size): ties go to the even integer
RoundCell(u) ==
    LET q == u \div cell_size
        r == u % cell_size
    IN IF 2 * r < cell_size THEN q
       ELSE IF 2 * r > cell_size THEN q + 1
       ELSE IF q % 2 = 0 THEN q ELSE q + 1

\* abs(u / cell_size - corner) > 0.1
FarFromCorner(u, corner) == 10 * Abs(u - corner * cell_size) > cell_size

HasCornerAt(room, cx, cy) ==
    \E c \in {<<room.x, room.y>>,
              <<room.x + room.width, room.y>>,
              <<room.x, room.y + room.height>>,
              <<room.x + room.width, room.y + room.height>>} :
       c[1] = cx /\ c[2] = cy

RoomsAtCorner(cx, cy) ==
    Cardinality({i \in RoomIdx : HasCornerAt(Room(i), cx, cy)})

_is_door_at_corner_intersection(door_x, door_y) ==
    LET corner_x == RoundCell(door_x)
        corner_y == RoundCell(door_y)
    IN IF FarFromCorner(door_x, corner_x) /\ FarFromCorner(door_y, corner_y)
       THEN FALSE
       ELSE RoomsAtCorner(corner_x, corner_y) >= 3

(***************************************************************************)
(* _create_doors.  The corner buffer (0.75 cell) and the minimum width     *)
(* (0.5 cell) are kept in quarter cells; a door position is in units:      *)
(* ((start + 0.75 + end - 0.75) / 2) * cell_size = (start + end) * 128.    *)
(***************************************************************************)
corner_buffer4 == 3
min_overlap4 == 2
door_pool == texture_pools["door"]

\* the overlap test made without the corner buffer
OverlapTooSmallUnbuffered(start, end) ==
    4 * end - 4 * start < min_overlap4

\* y_overlap_end - y_overlap_start < 0.5, both ends moved in by the buffer
OverlapTooSmall(start, end) ==
    (4 * end - corner_buffer4) - (4 * start + corner_buffer4) < min_overlap4

\* ((start + buffer) + (end - buffer)) / 2 * cell_size
DoorMidpoint(start, end) ==
    (((4 * start + corner_buffer4) + (4 * end - corner_buffer4)) * cell_size) \div 8

DoorPosition(room1, room2, direction) ==
    IF direction \in {"east", "west"}
    THEN <<IF direction = "east"
           THEN (room1.x + room1.width) * cell_size
           ELSE room1.x * cell_size,
           DoorMidpoint(YOverlapStart(room1, room2), YOverlapEnd(room1, room2))>>
    ELSE <<DoorMidpoint(XOverlapStart(room1, room2), XOverlapEnd(room1, room2)),
           IF direction = "south"
           THEN (room1.y + room1.height) * cell_size
           ELSE room1.y * cell_size>>

\* the grid cell on the other side of the wall
TargetCell(pos, direction) ==
    LET door_grid_x == pos[1] \div cell_size
        door_grid_y == pos[2] \div cell_size
    IN CASE direction = "east" -> <<door_grid_x, door_grid_y>>
         [] direction = "west" -> <<door_grid_x - 1, door_grid_y>>
         [] direction = "south" -> <<door_grid_x, door_grid_y>>
         [] direction = "north" -> <<door_grid_x, door_grid_y - 1>>

ClearanceOk(room_map, target, j) ==
    /\ 0 <= target[1] /\ target[1] < grid_size
    /\ 0 <= target[2] /\ target[2] < grid_size
    /\ room_map[target[2]][target[1]] = j

\* the door of the pair (i, j) recorded against room i + 1 instead of room j
DoorOfPairWrongIndex(room_map, i, j) ==
    LET room1 == Room(i)
        room2 == Room(j)
        adjacency == _find_adjacent_rooms(room1, room2)
    IN IF adjacency = None THEN None
       ELSE LET ew == adjacency.direction \in {"east", "west"}
                start == IF ew THEN YOverlapStart(room1, room2)
                               ELSE XOverlapStart(room1, room2)
                end == IF ew THEN YOverlapEnd(room1, room2)
                             ELSE XOverlapEnd(room1, room2)
                pos == DoorPosition(room1, room2, adjacency.direction)
            IN IF OverlapTooSmall(start, end) THEN None
               ELSE IF ~ClearanceOk(room_map, TargetCell(pos, adjacency.direction), j)
               THEN None
               ELSE IF _is_door_at_corner_intersection(pos[1], pos[2]) THEN None
               ELSE [kind |-> "door",
                     position |-> pos,
                     direction |-> adjacency.direction,
                     angle |-> -1,
                     texture |-> door_pool[1],
                     room1_idx |-> i,
                     room2_idx |-> i + 1]

\* the door of the pair (i, j), or None when the pair is not adjacent or skipped
DoorOfPair(room_map, i, j) ==
    LET room1 == Room(i)
        room2 == Room(j)
        adjacency == _find_adjacent_rooms(room1, room2)
    IN IF adjacency = None THEN None
       ELSE LET ew == adjacency.direction \in {"east", "west"}
                start == IF ew THEN YOverlapStart(room1, room2)
                               ELSE XOverlapStart(room1, room2)
                end == IF ew THEN YOverlapEnd(room1, room2)
                             ELSE XOverlapEnd(room1, room2)
                pos == DoorPosition(room1, room2, adjacency.direction)
            IN IF OverlapTooSmall(start, end) THEN None
               ELSE IF ~ClearanceOk(room_map, TargetCell(pos, adjacency.direction), j)
               THEN None
               ELSE IF _is_door_at_corner_intersection(pos[1], pos[2]) THEN None
               ELSE [kind |-> "door",
                     position |-> pos,
                     direction |-> adjacency.direction,
                     angle |-> -1,
                     texture |-> door_pool[1],
                     room1_idx |-> i,
                     room2_idx |-> j]

\* the inner loop restarted at room 0 instead of room i + 1
RECURSIVE DoorsFromAllPairs(_, _, _)
DoorsFromAllPairs(room_map, i, j) ==
    IF i >= NRooms THEN <<>>
    ELSE IF j >= NRooms THEN DoorsFromAllPairs(room_map, i + 1, 0)
    ELSE LET d == IF i = j THEN None ELSE DoorOfPair(room_map, i, j)
         IN (IF d = None THEN <<>> ELSE <<d>>) \o DoorsFromAllPairs(room_map, i, j + 1)

\* for i in range(n): for j in range(i + 1, n): in that order
RECURSIVE DoorsFrom(_, _, _)
DoorsFrom(room_map, i, j) ==
    IF i >= NRooms THEN <<>>
    ELSE IF j >= NRooms THEN DoorsFrom(room_map, i + 1, i + 2)
    ELSE LET d == DoorOfPair(room_map, i, j)
         IN (IF d = None THEN <<>> ELSE <<d>>) \o DoorsFrom(room_map, i, j + 1)

_create_doors ==
    IF NRooms = 0 THEN <<>> ELSE DoorsFrom(_build_room_map, 0, 1)

(***************************************************************************)
(* _ensure_connectivity: components of the door graph by breadth-first     *)
(* search from each unvisited room, in room-index order.                   *)
(***************************************************************************)
adjacency_of(ds, i) ==
    {ds[k].room2_idx : k \in {n \in 1 .. Len(ds) : ds[n].room1_idx = i}}
    \cup {ds[k].room1_idx : k \in {n \in 1 .. Len(ds) : ds[n].room2_idx = i}}

\* bfs(start): queue is the rooms waiting to be expanded, visited the set
\* shared by all searches; returns the component as a set
RECURSIVE bfs(_, _, _)
bfs(ds, queue, component) ==
    IF queue = {} THEN component
    ELSE LET room_idx == CHOOSE q \in queue : \A r \in queue : q <= r
             fresh == adjacency_of(ds, room_idx) \ (component \cup queue)
         IN bfs(ds, (queue \ {room_idx}) \cup fresh, component \cup {room_idx})

RECURSIVE ComponentsFrom(_, _, _)
ComponentsFrom(ds, i, visited) ==
    IF i >= NRooms THEN <<>>
    ELSE IF i \in visited THEN ComponentsFrom(ds, i + 1, visited)
    ELSE LET component == bfs(ds, {i}, {})
         IN <<component>> \o ComponentsFrom(ds, i + 1, visited \cup component)

Components(ds) == ComponentsFrom(ds, 0, {})

Tele(type, origin, target, targetname, room_idx) ==
    [type |-> type, origin |-> origin, target |-> target,
     targetname |-> targetname, room_idx |-> room_idx]

\* (room.x * cell_size) + (room.width * cell_size) * tenths / 10
Along(start, extent, tenths) ==
    S(start * cell_size) + S(extent * cell_size * tenths) \div 10

\* both triggers aimed at the destination of their own room
_add_teleporter_pair_swapped(room1, room2, room1_idx, room2_idx, teleporter_id) ==
    LET room1_trigger == <<Along(room1.x, room1.width, 7),
                           Along(room1.y, room1.height, 7),
                           S(floor_height)>>
        room1_dest == <<Along(room1.x, room1.width, 3),
                        Along(room1.y, room1.height, 3),
                        S(floor_height + 24)>>
        room2_trigger == <<Along(room2.x, room2.width, 3),
                           Along(room2.y, room2.height, 3),
                           S(floor_height)>>
        room2_dest == <<Along(room2.x, room2.width, 7),
                        Along(room2.y, room2.height, 7),
                        S(floor_height + 24)>>
        target1 == <<"tele_dest", teleporter_id, "a">>
        target2 == <<"tele_dest", teleporter_id, "b">>
    IN << Tele("trigger", room1_trigger, target1, <<>>, room1_idx),
          Tele("destination", room2_dest, <<>>, target2, room2_idx),
          Tele("visual_pad", room1_trigger, <<>>, <<>>, -1),
          Tele("trigger", room2_trigger, target2, <<>>, room2_idx),
          Tele("destination", room1_dest, <<>>, target1, room1_idx),
          Tele("visual_pad", room2_trigger, <<>>, <<>>, -1) >>

(***************************************************************************)
(* _add_teleporter_pair: the six records appended for one pair, with       *)
(* teleporter_id = len(self.teleporters) at the call.  Origins are in      *)
(* hundredths of a unit.                                                   *)
(***************************************************************************)
_add_teleporter_pair(room1, room2, room1_idx, room2_idx, teleporter_id) ==
    LET room1_trigger == <<Along(room1.x, room1.width, 7),
                           Along(room1.y, room1.height, 7),
                           S(floor_height)>>
        room1_dest == <<Along(room1.x, room1.width, 3),
                        Along(room1.y, room1.height, 3),
                        S(floor_height + 24)>>
        room2_trigger == <<Along(room2.x, room2.width, 3),
                           Along(room2.y, room2.height, 3),
                           S(floor_height)>>
        room2_dest == <<Along(room2.x, room2.width, 7),
                        Along(room2.y, room2.height, 7),
                        S(floor_height + 24)>>
        target1 == <<"tele_dest", teleporter_id, "a">>
        target2 == <<"tele_dest", teleporter_id, "b">>
    IN << Tele("trigger", room1_trigger, target2, <<>>, room1_idx),
          Tele("destination", room2_dest, <<>>, target2, room2_idx),
          Tele("visual_pad", room1_trigger, <<>>, <<>>, -1),
          Tele("trigger", room2_trigger, target1, <<>>, room2_idx),
          Tele("destination", room1_dest, <<>>, target1, room1_idx),
          Tele("visual_pad", room2_trigger, <<>>, <<>>, -1) >>

\* every component linked to the component before it instead of the first
RECURSIVE ConnectFromChain(_, _, _)
ConnectFromChain(components, i, tps) ==
    IF i > Len(components) THEN {tps}
    ELSE UNION {ConnectFromChain(components, i + 1,
                    tps \o _add_teleporter_pair(Room(source_room_idx),
                                                Room(target_room_idx),
                                                source_room_idx, target_room_idx,
                                                Len(tps))) :
                  source_room_idx \in components[i],
                  target_room_idx \in components[i - 1]}

\* the teleporter lists the loop over components[1:] may build
RECURSIVE ConnectFrom(_, _, _)
ConnectFrom(components, i, tps) ==
    IF i > Len(components) THEN {tps}
    ELSE UNION {ConnectFrom(components, i + 1,
                    tps \o _add_teleporter_pair(Room(source_room_idx),
                                                Room(target_room_idx),
                                                source_room_idx, target_room_idx,
                                                Len(tps))) :
                  source_room_idx \in components[i],
                  target_room_idx \in components[1]}

\* the loop over the components started one component late
_ensure_connectivity_skip_one ==
    IF NRooms <= 1 THEN {teleporters}
    ELSE LET components == Components(doors)
         IN IF Len(components) = 1 THEN {teleporters}
            ELSE ConnectFrom(components, 3, teleporters)

_ensure_connectivity ==
    IF NRooms <= 1 THEN {teleporters}
    ELSE LET components == Components(doors)
         IN IF Len(components) = 1 THEN {teleporters}
            ELSE ConnectFrom(components, 2, teleporters)

(***************************************************************************)
(* export_map: the solids it writes.                                       *)
(* _write_brush and _write_simple_brush write the same six face lines, in  *)
(* the order west, east, south, north, bottom, top; a solid is kept as its *)
(* two corner points (hundredths of a unit), its faces, the texture (or    *)
(* surface type) argument, the room it was written for (-1: none) and the  *)
(* entity block that holds it.                                             *)
(***************************************************************************)
floor_thick == 32
padding == 128
pit_depth == 128
lava_depth == 16
walkway_width == 96
pillar_size == 48
platform_thickness == 16


FaceOrder == <<"west", "east", "south", "north", "bottom", "top">>

Brush(kind, entity, x1, y1, z1, x2, y2, z2, texture, room_idx) ==
    [kind |-> kind, entity |-> entity,
     x1 |-> x1, y1 |-> y1, z1 |-> z1, x2 |-> x2, y2 |-> y2, z2 |-> z2,
     faces |-> FaceOrder, texture |-> texture, room_idx |-> room_idx]

_write_brush(kind, x1, y1, z1, x2, y2, z2, texture_type, room_idx) ==
    Brush(kind, "worldspawn", x1, y1, z1, x2, y2, z2, texture_type, room_idx)

_write_simple_brush(kind, entity, x1, y1, z1, x2, y2, z2, texture) ==
    Brush(kind, entity, x1, y1, z1, x2, y2, z2, texture, -1)

(***************************************************************************)
(* get_texture: the textures a call may return.  A room dict carries its   *)
(* three texture keys once generate() has run; without a room the pool is  *)
(* used: a draw when texture_variety is set, else its first entry.         *)
(***************************************************************************)
get_texture(texture_type, room_idx) ==
    IF room_idx # -1
    THEN {CASE texture_type = "floor" -> Room(room_idx).floor_texture
            [] texture_type = "ceiling" -> Room(room_idx).ceiling_texture
            [] OTHER -> Room(room_idx).wall_texture}
    ELSE IF texture_type \notin DOMAIN texture_pools
         THEN {"base"}
         ELSE IF texture_variety
              THEN Choices(texture_pools[texture_type])
              ELSE {texture_pools[texture_type][1]}

\* the textures the six face lines of a written solid may carry:
\* _write_brush resolves floor, ceiling and wall textures and uses them by
\* surface type; _write_simple_brush uses its texture argument on all faces
BrushTextures(b) ==
    IF b.kind \in {"hull", "floor", "ceiling", "wall", "platform"}
    THEN CASE b.texture = "floor" ->
                get_texture("floor", b.room_idx) \cup get_texture("wall", b.room_idx)
           [] b.texture = "ceiling" ->
                get_texture("wall", b.room_idx) \cup get_texture("ceiling", b.room_idx)
           [] OTHER -> get_texture("wall", b.room_idx)
    ELSE {b.texture}

\* F(lo) \o F(lo + 1) \o ... \o F(hi - 1)
RECURSIVE ConcatRange(_, _, _)
ConcatRange(F(_), lo, hi) ==
    IF lo >= hi THEN <<>> ELSE F(lo) \o ConcatRange(F, lo + 1, hi)

RoomType(room) == room_types(room_min, room_max)[room.type]

_get_room_floor_offset(room) == RoomType(room).floor_offset

map_top_z == ceiling_height + door_height + wall_thickness

\* the sealed box around the whole grid
Hull ==
    LET map_size == grid_size * cell_size
        lo == S(-padding)
        hi == S(map_size + padding)
    IN << _write_brush("hull", lo, lo, S(-floor_thick - wall_thickness),
                       hi, hi, S(-floor_thick), "wall", -1),
          _write_brush("hull", lo, lo, S(map_top_z),
                       hi, hi, S(map_top_z + wall_thickness), "ceiling", -1),
          _write_brush("hull", lo, lo, S(-floor_thick),
                       hi, S(-padding + wall_thickness), S(map_top_z), "wall", -1),
          _write_brush("hull", lo, S(map_size + padding - wall_thickness), S(-floor_thick),
                       hi, hi, S(map_top_z), "wall", -1),
          _write_brush("hull", lo, lo, S(-floor_thick),
                       S(-padding + wall_thickness), hi, S(map_top_z), "wall", -1),
          _write_brush("hull", S(map_size + padding - wall_thickness), lo, S(-floor_thick),
                       hi, hi, S(map_top_z), "wall", -1) >>

(***************************************************************************)
(* _add_pit_to_room: the pit rectangle (pit_size_ratio 0.4, centred), the  *)
(* cells it overlaps and the lava solid at its bottom.                     *)
(***************************************************************************)
pit_ratio10 == 4

PitRect(room) ==
    LET room_width_units == S(room.width * cell_size)
        room_height_units == S(room.height * cell_size)
        pit_width == (room_width_units * pit_ratio10) \div 10
        pit_height == (room_height_units * pit_ratio10) \div 10
        room_center_x == S(room.x * cell_size) + room_width_units \div 2
        room_center_y == S(room.y * cell_size) + room_height_units \div 2
    IN [x1 |-> room_center_x - pit_width \div 2,
        y1 |-> room_center_y - pit_height \div 2,
        x2 |-> room_center_x + pit_width \div 2,
        y2 |-> room_center_y + pit_height \div 2]

PitCells(room) ==
    LET pit == PitRect(room)
    IN {c \in RoomCells(room) :
          ~(\/ S((c[1] + 1) * cell_size) < pit.x1
            \/ S(c[1] * cell_size) > pit.x2
            \/ S((c[2] + 1) * cell_size) < pit.y1
            \/ S(c[2] * cell_size) > pit.y2)}

_add_pit_to_room(room_idx) ==
    LET room == Room(room_idx)
        pit == PitRect(room)
        pit_bottom_z == floor_height + _get_room_floor_offset(room) - pit_depth
    IN << _write_simple_brush("pit", "worldspawn", pit.x1, pit.y1, S(pit_bottom_z),
                              pit.x2, pit.y2, S(pit_bottom_z + lava_depth), "*lava1") >>

(***************************************************************************)
(* _add_liquid_pool_to_room: None when the walkway leaves no pool.         *)
(***************************************************************************)
PoolRect(room) ==
    LET room_x1 == room.x * cell_size
        room_y1 == room.y * cell_size
        room_x2 == room_x1 + room.width * cell_size
        room_y2 == room_y1 + room.height * cell_size
        liquid_top_z == floor_height + _get_room_floor_offset(room) + 4
    IN [x1 |-> S(room_x1 + walkway_width), y1 |-> S(room_y1 + walkway_width),
        x2 |-> S(room_x2 - walkway_width), y2 |-> S(room_y2 - walkway_width),
        z1 |-> S(liquid_top_z - 20), z2 |-> S(liquid_top_z)]

HasPool(room) ==
    LET pool == PoolRect(room)
    IN ~(pool.x2 <= pool.x1 \/ pool.y2 <= pool.y1)

_add_liquid_pool_to_room(room_idx) ==
    LET room == Room(room_idx)
        pool == PoolRect(room)
    IN IF ~HasPool(room) THEN <<>>
       ELSE << _write_simple_brush("liquid", "worldspawn", pool.x1, pool.y1, pool.z1,
                                   pool.x2, pool.y2, pool.z2,
                                   RoomType(room).liquid_type) >>

\* the pass over the rooms that export_map makes before any floor is written
PreFeatures(room_idx) ==
    IF RoomType(Room(room_idx)).has_pit THEN _add_pit_to_room(room_idx)
    ELSE IF RoomType(Room(room_idx)).has_liquid THEN _add_liquid_pool_to_room(room_idx)
    ELSE <<>>

skip_floor_cells_any_room ==
    UNION {PitCells(Room(i)) : i \in RoomIdx}

skip_floor_cells ==
    UNION {PitCells(Room(i)) : i \in {r \in RoomIdx : RoomType(Room(r)).has_pit}}

liquid_triggers ==
    LET Trig(room_idx) ==
          IF /\ ~RoomType(Room(room_idx)).has_pit
             /\ RoomType(Room(room_idx)).has_liquid
             /\ HasPool(Room(room_idx))
          THEN <<PoolRect(Room(room_idx))>> ELSE <<>>
    IN ConcatRange(Trig, 0, NRooms)

(***************************************************************************)
(* Floors and ceilings, cell by cell (y outer, x inner).                   *)
(***************************************************************************)
CellFloorCeiling(room_map, k) ==
    LET y == k \div grid_size
        x == k % grid_size
        room_idx == room_map[y][x]
    IN IF room_idx = -1 THEN <<>>
       ELSE LET x1 == x * cell_size
                y1 == y * cell_size
                x2 == x1 + cell_size
                y2 == y1 + cell_size
                room_floor_z == floor_height + _get_room_floor_offset(Room(room_idx))
                ceiling_z_bottom == ceiling_height + door_height
                ceiling_z_top == ceiling_z_bottom + wall_thickness
            IN (IF <<x, y>> \notin skip_floor_cells
                THEN << _write_brush("floor", S(x1), S(y1), S(-floor_thick),
                                     S(x2), S(y2), S(room_floor_z), "floor", room_idx) >>
                ELSE <<>>)
               \o << _write_brush("ceiling", S(x1), S(y1), S(ceiling_z_bottom),
                                  S(x2), S(y2), S(ceiling_z_top), "ceiling", room_idx) >>

(***************************************************************************)
(* _generate_dungeon_walls: for every room cell, the north, south, west    *)
(* and east boundary; a wall shared by two rooms is written by the         *)
(* lower-indexed room, and split around the door of the pair.              *)
(***************************************************************************)
wall_top_z == ceiling_height + door_height + wall_thickness

\* door_map[(min, max)]: the last door of the pair in self.doors, or None
door_map(a, b) ==
    LET lo == Min2(a, b)
        hi == Max2(a, b)
        hits == {n \in 1 .. Len(doors) :
                   /\ Min2(doors[n].room1_idx, doors[n].room2_idx) = lo
                   /\ Max2(doors[n].room1_idx, doors[n].room2_idx) = hi}
    IN IF hits = {} THEN None ELSE doors[SetMax(hits)]

\* one boundary of a cell running along the x axis (horizontal = TRUE) or the
\* y axis: [c1, c2] is the cell's extent along the wall, [min_t, max_t] the
\* wall's thickness across it
WallPiecesSolid(door, horizontal, c1, c2, min_t, max_t, room_idx) ==
    IF horizontal
    THEN << _write_brush("wall", c1, min_t, S(floor_height), c2, max_t,
                         S(wall_top_z), "wall", room_idx) >>
    ELSE << _write_brush("wall", min_t, c1, S(floor_height), max_t, c2,
                         S(wall_top_z), "wall", room_idx) >>

WallPieces(door, horizontal, c1, c2, min_t, max_t, room_idx) ==
    LET W(a1, a2, z1) ==
          IF horizontal
          THEN _write_brush("wall", a1, min_t, z1, a2, max_t, S(wall_top_z), "wall", room_idx)
          ELSE _write_brush("wall", min_t, a1, z1, max_t, a2, S(wall_top_z), "wall", room_idx)
        full == << W(c1, c2, S(floor_height)) >>
    IN IF door = None THEN full
       ELSE LET along == IF horizontal THEN door.position[1] ELSE door.position[2]
                door_1 == S(along) - S(door_width) \div 2
                door_2 == S(along) + S(door_width) \div 2
                door_z2 == floor_height + door_height
                clamped_1 == Max2(c1, door_1)
                clamped_2 == Min2(c2, door_2)
            IN IF clamped_1 < clamped_2
               THEN (IF c1 < clamped_1 THEN << W(c1, clamped_1, S(floor_height)) >> ELSE <<>>)
                    \o (IF clamped_2 < c2 THEN << W(clamped_2, c2, S(floor_height)) >> ELSE <<>>)
                    \o << W(clamped_1, clamped_2, S(door_z2)) >>
               ELSE full

CellWallBothSides(room_map, x, y, nx, ny, direction) ==
    LET room_idx == room_map[y][x]
        inside == IF direction \in {"north", "south"}
                  THEN 0 <= ny /\ ny < grid_size
                  ELSE 0 <= nx /\ nx < grid_size
        neighbor_idx == IF inside THEN room_map[ny][nx] ELSE -1
    IN IF neighbor_idx = room_idx THEN <<>>
       ELSE LET door == IF neighbor_idx # -1 THEN door_map(room_idx, neighbor_idx) ELSE None
                horizontal == direction \in {"north", "south"}
                wall_1 == CASE direction = "north" -> y * cell_size
                            [] direction = "south" -> (y + 1) * cell_size
                            [] direction = "west" -> x * cell_size
                            [] direction = "east" -> (x + 1) * cell_size
                wall_2 == IF direction \in {"north", "west"}
                          THEN wall_1 - wall_thickness
                          ELSE wall_1 + wall_thickness
                c1 == IF horizontal THEN x * cell_size ELSE y * cell_size
            IN WallPieces(door, horizontal, S(c1), S(c1 + cell_size),
                          S(Min2(wall_1, wall_2)), S(Max2(wall_1, wall_2)), room_idx)

CellWall(room_map, x, y, nx, ny, direction) ==
    LET room_idx == room_map[y][x]
        inside == IF direction \in {"north", "south"}
                  THEN 0 <= ny /\ ny < grid_size
                  ELSE 0 <= nx /\ nx < grid_size
        neighbor_idx == IF inside THEN room_map[ny][nx] ELSE -1
    IN IF neighbor_idx = room_idx THEN <<>>
       ELSE IF neighbor_idx # -1 /\ room_idx > neighbor_idx THEN <<>>
       ELSE LET door == IF neighbor_idx # -1 THEN door_map(room_idx, neighbor_idx) ELSE None
                horizontal == direction \in {"north", "south"}
                wall_1 == CASE direction = "north" -> y * cell_size
                            [] direction = "south" -> (y + 1) * cell_size
                            [] direction = "west" -> x * cell_size
                            [] direction = "east" -> (x + 1) * cell_size
                wall_2 == IF direction \in {"north", "west"}
                          THEN wall_1 - wall_thickness
                          ELSE wall_1 + wall_thickness
                c1 == IF horizontal THEN x * cell_size ELSE y * cell_size
            IN WallPieces(door, horizontal, S(c1), S(c1 + cell_size),
                          S(Min2(wall_1, wall_2)), S(Max2(wall_1, wall_2)), room_idx)

CellWalls(room_map, k) ==
    LET y == k \div grid_size
        x == k % grid_size
    IN IF room_map[y][x] = -1 THEN <<>>
       ELSE CellWall(room_map, x, y, x, y - 1, "north")
            \o CellWall(room_map, x, y, x, y + 1, "south")
            \o CellWall(room_map, x, y, x - 1, y, "west")
            \o CellWall(room_map, x, y, x + 1, y, "east")

_generate_dungeon_walls(room_map) ==
    LET F(k) == CellWalls(room_map, k)
    IN ConcatRange(F, 0, grid_size * grid_size)

(***************************************************************************)
(* _add_pillars_to_room: a 2x2 grid (pillar_count 4), two pillars (2) or   *)
(* one centre pillar (any other count); positions at 0.33 / 0.5 / 0.67 of  *)
(* the room.                                                               *)
(***************************************************************************)
Frac(start, extent, hundredths) ==
    S(start * cell_size) + extent * cell_size * hundredths

_add_pillars_to_room(room_idx) ==
    LET room == Room(room_idx)
        pillar_count == RoomType(room).pillar_count
        pillar_floor_z == floor_height + _get_room_floor_offset(room)
        x_positions == IF pillar_count = 4
                       THEN << Frac(room.x, room.width, 33), Frac(room.x, room.width, 67) >>
                       ELSE << Frac(room.x, room.width, 50) >>
        y_positions == IF pillar_count = 4 \/ pillar_count = 2
                       THEN << Frac(room.y, room.height, 33), Frac(room.y, room.height, 67) >>
                       ELSE << Frac(room.y, room.height, 50) >>
        half == S(pillar_size) \div 2
        Col(i) ==
          LET Pil(j) ==
                << _write_simple_brush("pillar", "worldspawn",
                      x_positions[i] - half, y_positions[j] - half, S(pillar_floor_z),
                      x_positions[i] + half, y_positions[j] + half, S(ceiling_height),
                      room.wall_texture) >>
          IN ConcatRange(Pil, 1, Len(y_positions) + 1)
    IN ConcatRange(Col, 1, Len(x_positions) + 1)

(***************************************************************************)
(* _add_platforms_to_room: up to three platforms (corner, opposite corner, *)
(* centre), each a solid from the room floor to its top.                   *)
(***************************************************************************)
_add_platforms_to_room(room_idx) ==
    LET room == Room(room_idx)
        platform_count == RoomType(room).platform_count
        room_width_units == S(room.width * cell_size)
        room_height_units == S(room.height * cell_size)
        shorter == Min2(room_width_units, room_height_units)
        base_floor_z == floor_height + _get_room_floor_offset(room)
        Plat(x1, y1, size, plat_z) ==
          _write_brush("platform", x1, y1, S(base_floor_z),
                       x1 + size, y1 + size, S(plat_z + platform_thickness),
                       "floor", room_idx)
        size1 == (shorter * 30) \div 100
        size2 == (shorter * 25) \div 100
        size3 == (shorter * 20) \div 100
    IN (IF platform_count >= 1
        THEN << Plat(S(room.x * cell_size + 64), S(room.y * cell_size + 64),
                     size1, base_floor_z + 64) >>
        ELSE <<>>)
       \o (IF platform_count >= 2
           THEN << Plat(S(room.x * cell_size) + room_width_units - size2 - S(64),
                        S(room.y * cell_size) + room_height_units - size2 - S(64),
                        size2, base_floor_z + 48) >>
           ELSE <<>>)
       \o (IF platform_count >= 3
           THEN << Plat(S(room.x * cell_size) + room_width_units \div 2 - size3 \div 2,
                        S(room.y * cell_size) + room_height_units \div 2 - size3 \div 2,
                        size3, base_floor_z + 96) >>
           ELSE <<>>)

PostFeatures(room_idx) ==
    (IF RoomType(Room(room_idx)).has_pillars THEN _add_pillars_to_room(room_idx) ELSE <<>>)
    \o (IF RoomType(Room(room_idx)).has_platforms THEN _add_platforms_to_room(room_idx) ELSE <<>>)

(***************************************************************************)
(* Pads of the world entity and the solids of the brush entities.          *)
(***************************************************************************)
Box(kind, entity, cx, cy, z, half, height, texture) ==
    _write_simple_brush(kind, entity, cx - half, cy - half, z,
                        cx + half, cy + half, z + height, texture)

TeleporterPads ==
    LET Pad(n) ==
          IF teleporters[n].type = "visual_pad"
          THEN << Box("teleporter_pad", "worldspawn",
                      teleporters[n].origin[1], teleporters[n].origin[2],
                      teleporters[n].origin[3], S(64) \div 2, S(8), "*teleport") >>
          ELSE <<>>
    IN ConcatRange(Pad, 1, Len(teleporters) + 1)

\* (room.x + room.width / 2) * cell_size
RoomCenter(room) ==
    << S(room.x * cell_size) + S(room.width * cell_size) \div 2,
       S(room.y * cell_size) + S(room.height * cell_size) \div 2 >>

GoalPad ==
    IF end_goal = -1 THEN <<>>
    ELSE << Box("goal_pad", "worldspawn",
                RoomCenter(Room(end_goal))[1], RoomCenter(Room(end_goal))[2],
                S(floor_height), S(96) \div 2, S(8), "exit01") >>

TeleporterTriggers ==
    LET Trig(n) ==
          IF teleporters[n].type = "trigger"
          THEN << Box("teleport_trigger", "trigger_teleport",
                      teleporters[n].origin[1], teleporters[n].origin[2],
                      teleporters[n].origin[3], S(64) \div 2, S(64), "trigger") >>
          ELSE <<>>
    IN ConcatRange(Trig, 1, Len(teleporters) + 1)

DoorBrushes ==
    LET D(n) ==
          LET door == doors[n]
              ew == door.direction \in {"east", "west"}
              hx == IF ew THEN S(door_thickness) \div 2 ELSE S(door_width) \div 2
              hy == IF ew THEN S(door_width) \div 2 ELSE S(door_thickness) \div 2
          IN << _write_simple_brush("door", "func_door",
                   S(door.position[1]) - hx, S(door.position[2]) - hy, S(floor_height),
                   S(door.position[1]) + hx, S(door.position[2]) + hy,
                   S(floor_height + door_height), door.texture) >>
    IN ConcatRange(D, 1, Len(doors) + 1)

HurtTriggers ==
    LET H(n) ==
          LET t == liquid_triggers[n]
          IN << _write_simple_brush("hurt_trigger", "trigger_hurt",
                   t.x1, t.y1, t.z1, t.x2, t.y2, t.z2 + S(64), "trigger") >>
    IN ConcatRange(H, 1, Len(liquid_triggers) + 1)

GoalTrigger ==
    IF end_goal = -1 THEN <<>>
    ELSE << Box("goal_trigger", "trigger_changelevel",
                RoomCenter(Room(end_goal))[1], RoomCenter(Room(end_goal))[2],
                S(floor_height), S(96) \div 2, S(64), "trigger") >>

(***************************************************************************)
(* export_map: every solid of the file, in the order it is written.        *)
(***************************************************************************)
export_map ==
    LET room_map == _build_room_map
        FloorCeil(k) == CellFloorCeiling(room_map, k)
    IN Hull
       \o ConcatRange(PreFeatures, 0, NRooms)
       \o ConcatRange(FloorCeil, 0, grid_size * grid_size)
       \o _generate_dungeon_walls(room_map)
       \o ConcatRange(PostFeatures, 0, NRooms)
       \o TeleporterPads
       \o GoalPad
       \o TeleporterTriggers
       \o DoorBrushes
       \o HurtTriggers
       \o GoalTrigger

(***************************************************************************)
(* export_map: the entities after the world entity, in file order.  An     *)
(* entity is kept as its classname and its origin (hundredths of a unit;   *)
(* <<>> for an entity that holds a solid, and for a spawned entity, whose  *)
(* drawn position is not kept).                                            *)
(***************************************************************************)
entity_pools ==
    [weapons |-> <<"weapon_shotgun", "weapon_supershotgun", "weapon_nailgun",
                   "weapon_supernailgun", "weapon_grenadelauncher",
                   "weapon_rocketlauncher">>,
     ammo |-> <<"item_shells", "item_spikes", "item_rockets", "item_cells">>,
     health |-> <<"item_health">>,
     armor |-> <<"item_armor1", "item_armor2", "item_armorInv">>,
     monsters |-> <<"monster_army", "monster_dog", "monster_ogre",
                    "monster_knight", "monster_hell_knight", "monster_demon1",
                    "monster_zombie", "monster_enforcer", "monster_grunt">>,
     powerups |-> <<"item_artifact_envirosuit", "item_artifact_invisibility",
                    "item_artifact_invulnerability",
                    "item_artifact_super_damage">>]

entity_pool_keys ==
    <<"weapons", "ammo", "health", "armor", "monsters", "powerups">>

spawn_padding == 48

Entity(classname, origin) == [classname |-> classname, origin |-> origin]

\* n entities whose classes are drawn from classes
RECURSIVE SpawnSeqs(_, _)
SpawnSeqs(classes, n) ==
    IF n = 0 THEN {<<>>}
    ELSE {<<Entity(c, <<>>)>> \o rest : c \in classes, rest \in SpawnSeqs(classes, n - 1)}

\* category drawn from categories, then class drawn from its pool
ClassesOf(categories) ==
    UNION {Choices(entity_pools[c]) : c \in Choices(categories)}

\* the lists _spawn_room_entities may return, by entity_mode
SpawnLists(room) ==
    LET mode == entity_mode(room.type)
        monsters == Choices(entity_pools.monsters)
    IN CASE mode = "none" -> {<<>>}
         [] mode = "supplies_only" ->
              UNION {SpawnSeqs(ClassesOf(<<"weapons", "ammo", "health", "armor">>), n) :
                       n \in 3 .. 6}
         [] mode = "minimal" ->
              SpawnSeqs(monsters, 1) \cup SpawnSeqs(ClassesOf(<<"ammo", "health">>), 1)
         [] mode = "ambush" ->
              UNION {SpawnSeqs(monsters, (k * entity_multiplier10(room.type)) \div 10) :
                       k \in 2 .. 4}
         [] mode = "horde" ->
              UNION {SpawnSeqs(Choices(<<"monster_army", "monster_dog",
                                         "monster_zombie", "monster_grunt">>), n) :
                       n \in 5 .. 8}
         [] mode = "boss" ->
              UNION {SpawnSeqs(Choices(<<"monster_ogre", "monster_hell_knight",
                                         "monster_demon1", "monster_enforcer">>), n) :
                       n \in 2 .. 4}
         [] OTHER ->
              \* one monster, then (random() <= spawn_chance, which is 1)
              \* one to three entities of any category
              UNION {{m \o more : m \in SpawnSeqs(monsters, 1),
                                  more \in SpawnSeqs(ClassesOf(entity_pool_keys), n)} :
                       n \in 1 .. 3}

\* spawn_entity draws randint(room_x1 + 48, room_x2 - 48): an empty range raises
SpawnRaises(room) ==
    /\ entity_mode(room.type) # "none"
    /\ \/ room.width * cell_size < 2 * spawn_padding
       \/ room.height * cell_size < 2 * spawn_padding

_spawn_room_entities(room) ==
    IF SpawnRaises(room) THEN {[kind |-> "raise"]}
    ELSE {[kind |-> "ok", list |-> l] : l \in SpawnLists(room)}

\* the player start put on the top-left corner of the room
PlayerStartAtCorner ==
    IF NRooms = 0 THEN <<>>
    ELSE << Entity("info_player_start",
                   <<S(Room(0).x * cell_size), S(Room(0).y * cell_size),
                     S(floor_height + 24)>>) >>

PlayerStart ==
    IF NRooms = 0 THEN <<>>
    ELSE << Entity("info_player_start",
                   <<RoomCenter(Room(0))[1], RoomCenter(Room(0))[2],
                     S(floor_height + 24)>>) >>

\* the light entities of one room
RoomLights(room) ==
    LET z == S(ceiling_height - 32)
        w == S(room.width * cell_size)
        h == S(room.height * cell_size)
        base_x == S(room.x * cell_size)
        base_y == S(room.y * cell_size)
        offset_x == (w * 3) \div 10
        offset_y == (h * 3) \div 10
        Light(x, y) == Entity("light", <<x, y, z>>)
    IN IF multi_lights(room.type)
       THEN << Light(base_x + offset_x, base_y + offset_y),
               Light(base_x + w - offset_x, base_y + offset_y),
               Light(base_x + offset_x, base_y + h - offset_y),
               Light(base_x + w - offset_x, base_y + h - offset_y) >>
            \o (IF room.width >= 4 /\ room.height >= 4
                THEN << Light(base_x + w \div 2, base_y + h \div 2) >>
                ELSE <<>>)
       ELSE << Light(base_x + w \div 2, base_y + h \div 2) >>

\* lights and spawned entities of rooms i, i + 1, ...: the lists the loop
\* may write, or "raise"
RECURSIVE RoomEntities(_)
RoomEntities(i) ==
    IF i >= NRooms THEN {[kind |-> "ok", list |-> <<>>]}
    ELSE LET own == IF spawn_entities
                    THEN _spawn_room_entities(Room(i))
                    ELSE {[kind |-> "ok", list |-> <<>>]}
         IN {IF o.kind = "raise" \/ rest.kind = "raise"
             THEN [kind |-> "raise"]
             ELSE [kind |-> "ok", list |-> RoomLights(Room(i)) \o o.list \o rest.list] :
                o \in own, rest \in RoomEntities(i + 1)}

TeleporterEntities ==
    LET Ent(n) ==
          IF teleporters[n].type = "trigger"
          THEN << Entity("trigger_teleport", <<>>) >>
          ELSE IF teleporters[n].type = "destination"
               THEN << Entity("info_teleport_destination", teleporters[n].origin) >>
               ELSE <<>>
    IN ConcatRange(Ent, 1, Len(teleporters) + 1)

DoorEntities == [n \in 1 .. Len(doors) |-> Entity("func_door", <<>>)]

HurtEntities == [n \in 1 .. Len(HurtTriggers) |-> Entity("trigger_hurt", <<>>)]

GoalEntity ==
    IF end_goal # -1 THEN << Entity("trigger_changelevel", <<>>) >> ELSE <<>>

\* every entity list export_map may write after the world entity, or "raise"
export_entities ==
    {IF r.kind = "raise" THEN r
     ELSE [kind |-> "ok",
           list |-> PlayerStart \o r.list \o TeleporterEntities \o DoorEntities
                    \o HurtEntities \o GoalEntity] :
        r \in RoomEntities(0)}

(***************************************************************************)
(* Construction.  _select_room_type draws from room_type_names; the model  *)
(* runs draw from GeomTypes, or from LayoutTypes with more rooms.          *)
(***************************************************************************)
LayoutTypes == {"plain", "pillar_room"}
GeomTypes ==
    {"plain", "hallway", "outdoor", "pit_room", "lava_pool", "pillar_room",
     "platform_room", "sunken_room", "raised_room", "gallery", "cathedral"}

Constructed(gs, rmin, rmax, n, variety, types, idx, spawn) ==
    /\ grid_size = gs
    /\ room_min = rmin
    /\ room_max = rmax
    /\ num_rooms = n
    /\ texture_variety = variety
    /\ room_type_names = types
    /\ tex_idx = idx
    /\ grid = [y \in 0 .. (gs - 1) |-> [x \in 0 .. (gs - 1) |-> FALSE]]
    /\ rooms = <<>>
    /\ doors = <<>>
    /\ teleporters = <<>>
    /\ end_goal = -1
    /\ last_theme = "none"
    /\ placed = 0
    /\ brushes = <<>>
    /\ entities = <<>>
    /\ spawn_entities = spawn
    /\ texture_pools = default_texture_pools
    /\ calls = 0
    /\ call = None

\* the position at the first statement of generate()
StartOfGenerate == IF num_rooms = 0 THEN "doors" ELSE "place"

\* construction followed at once by generate()
Construct(gs, rmin, rmax, n, variety, types, idx) ==
    /\ Constructed(gs, rmin, rmax, n, variety, types, idx, FALSE)
    /\ pc = IF n = 0 THEN "doors" ELSE "place"

\* the full run, generate() then export_map()
Init == Construct(GridSize, RoomMin, RoomMax, GeomNumRooms, TRUE, GeomTypes, {1})

\* generate() alone, with more rooms
InitLayout == Construct(GridSize, RoomMin, RoomMax, NumRooms, TRUE, LayoutTypes, {1})

\* generate() with the room sizes of minimal_test.py (room_min = room_max = 1)
MinimalTypes == {"plain", "outdoor", "pillar_room"}

InitMinimal == Construct(GridSize, 1, 1, GeomNumRooms, FALSE, MinimalTypes, {1})

(***************************************************************************)
(* _create_doors on the layouts the placement loop of generate() can leave *)
(* behind with room_min = room_max = 1: every iteration placed, at its     *)
(* first attempt, one of a few rectangles around the lattice point (1, 1). *)
(***************************************************************************)
CornerTypes == {"arena", "outdoor"}

CornerCandidates ==
    {[x |-> x, y |-> 0, width |-> 1, height |-> 2, type |-> "arena"] : x \in 0 .. 1}
    \cup {[x |-> x, y |-> 2, width |-> 2, height |-> 1, type |-> "arena"] : x \in 0 .. 1}
    \cup {[x |-> 1, y |-> y, width |-> 0, height |-> 0, type |-> "outdoor"] : y \in 1 .. 2}

CornerRooms ==
    UNION {_assign_room_textures(r, theme_names[1]) : r \in CornerCandidates}

\* every room has dimensions its type can draw and a position the attempt
\* can draw, and was free of the rooms placed before it
PlaceableLayout(layout) ==
    \A k \in 1 .. Len(layout) :
       /\ _get_room_dimensions(layout[k].type).kind = "ok"
       /\ <<layout[k].width, layout[k].height>>
             \in _get_room_dimensions(layout[k].type).dims
       /\ FitsGrid(layout[k].width, layout[k].height)
       /\ layout[k].x \in 0 .. (grid_size - layout[k].width)
       /\ layout[k].y \in 0 .. (grid_size - layout[k].height)
       /\ \A m \in 1 .. (k - 1) :
             RoomCells(layout[m]) \cap RoomCells(layout[k]) = {}

CornerLayouts ==
    {layout \in [1 .. CornerNumRooms -> CornerRooms] : PlaceableLayout(layout)}

InitCorner ==
    /\ grid_size = GridSize
    /\ room_min = 1
    /\ room_max = 1
    /\ num_rooms = CornerNumRooms
    /\ texture_variety = FALSE
    /\ room_type_names = CornerTypes
    /\ tex_idx = {1}
    /\ rooms \in CornerLayouts
    /\ grid = [y \in 0 .. (GridSize - 1) |-> [x \in 0 .. (GridSize - 1) |->
                  \E k \in 1 .. Len(rooms) : <<x, y>> \in RoomCells(rooms[k])]]
    /\ doors = <<>>
    /\ teleporters = <<>>
    /\ end_goal = -1
    /\ last_theme = theme_names[1]
    /\ placed = CornerNumRooms
    /\ pc = "doors"
    /\ brushes = <<>>
    /\ entities = <<>>
    /\ spawn_entities = FALSE
    /\ texture_pools = default_texture_pools
    /\ calls = 0
    /\ call = None

\* the full run on the wider grid, with rooms up to three cells long
InitWide ==
    Construct(WideGridSize, WideRoomMin, WideRoomMax, GeomNumRooms, FALSE,
              LayoutTypes, {1})

(***************************************************************************)
(* The scripts minimal_test.py and texture_test.py: construct with         *)
(* texture_variety=False and num_rooms=1, call set_texture_pool a few      *)
(* times, then generate() and export_map().                                *)
(***************************************************************************)
MaxPoolCalls == 3

SetupTypes == {"plain", "hallway", "pit_room", "lava_pool", "pillar_room"}

\* arguments the scripts may hand to set_texture_pool
PoolArgs == {"floor", "wall", "ceiling", "sky"}
TextureArgs == {<<>>, <<"WSWAMP1_4">>, <<"CITY4_2", "WSWAMP1_4">>}

InitSetup ==
    /\ Constructed(GridSize, RoomMin, RoomMax, 1, FALSE, SetupTypes, {1}, TRUE)
    /\ pc = "setup"

(***************************************************************************)
(* generate(): one iteration of the room loop.                             *)
(***************************************************************************)
NextIteration ==
    /\ placed' = placed + 1
    /\ pc' = IF placed + 1 = num_rooms THEN "doors" ELSE "place"

\* _place_random_room returned a room: theme, textures, append
PlaceRoom ==
    /\ pc = "place"
    /\ \E r \in _place_random_room :
          /\ r.kind = "room"
          /\ \E theme \in _choose_next_theme :
                \E room \in _assign_room_textures(r, theme) :
                   /\ grid' = MarkGrid(r)
                   /\ rooms' = Append(rooms, room)
                   /\ last_theme' = theme
    /\ NextIteration
    /\ UNCHANGED <<config, doors, teleporters, end_goal, brushes, entities>>

\* _place_random_room returned None: the iteration places nothing
PlaceSkip ==
    /\ pc = "place"
    /\ None \in _place_random_room
    /\ NextIteration
    /\ UNCHANGED <<config, grid, rooms, doors, teleporters, end_goal,
                   last_theme, brushes, entities>>

\* random.randint raised ValueError inside _get_room_dimensions
PlaceRaise ==
    /\ pc = "place"
    /\ [kind |-> "raise"] \in _place_random_room
    /\ pc' = "aborted"
    /\ UNCHANGED <<config, grid, rooms, doors, teleporters, end_goal,
                   last_theme, placed, brushes, entities>>

CreateDoors ==
    /\ pc = "doors"
    /\ doors' = _create_doors
    /\ pc' = "connectivity"
    /\ UNCHANGED <<config, grid, rooms, teleporters, end_goal, last_theme,
                   placed, brushes, entities>>

EnsureConnectivity ==
    /\ pc = "connectivity"
    /\ teleporters' \in _ensure_connectivity
    /\ pc' = "end_goal"
    /\ UNCHANGED <<config, grid, rooms, doors, end_goal, last_theme,
                   placed, brushes, entities>>

\* if len(self.rooms) > 1: self.end_goal = random.randint(1, len(self.rooms) - 1)
PickEndGoal ==
    /\ pc = "end_goal"
    /\ IF NRooms > 1
       THEN end_goal' \in 1 .. (NRooms - 1)
       ELSE end_goal' = end_goal
    /\ pc' = "generated"
    /\ UNCHANGED <<config, grid, rooms, doors, teleporters, last_theme,
                   placed, brushes, entities>>

\* export_map: the world entity with its solids, then the entities; a
\* ValueError inside _spawn_room_entities ends it after the world entity
ExportMap ==
    /\ pc = "generated"
    /\ brushes' = export_map
    /\ \E r \in export_entities :
          IF r.kind = "raise"
          THEN entities' = PlayerStart /\ pc' = "export_aborted"
          ELSE entities' = r.list /\ pc' = "exported"
    /\ UNCHANGED <<config, grid, rooms, doors, teleporters, end_goal,
                   last_theme, placed>>

(***************************************************************************)
(* set_texture_pool(texture_type, textures)                                *)
(***************************************************************************)
\* the condition of the if: a known pool name and a non-empty list
ValidPoolCall(texture_type, textures) ==
    texture_type \in DOMAIN texture_pools /\ textures # <<>>

\* set_texture_pool that accepts an empty list
set_texture_pool_accepts_empty(texture_type, textures) ==
    IF texture_type \in DOMAIN texture_pools
    THEN [kind |-> "ok",
          pools |-> [texture_pools EXCEPT ![texture_type] = textures]]
    ELSE [kind |-> "raise", pools |-> texture_pools]

set_texture_pool(texture_type, textures) ==
    IF ValidPoolCall(texture_type, textures)
    THEN [kind |-> "ok",
          pools |-> [texture_pools EXCEPT ![texture_type] = textures]]
    ELSE [kind |-> "raise", pools |-> texture_pools]

\* one call of the script; a ValueError ends the script
SetTexturePool ==
    /\ pc = "setup"
    /\ calls < MaxPoolCalls
    /\ \E texture_type \in PoolArgs : \E textures \in TextureArgs :
          LET r == set_texture_pool(texture_type, textures)
          IN /\ texture_pools' = r.pools
             /\ call' = [texture_type |-> texture_type, textures |-> textures]
             /\ pc' = IF r.kind = "raise" THEN "config_error" ELSE "setup"
    /\ calls' = calls + 1
    /\ UNCHANGED <<args, grid, rooms, doors, teleporters, end_goal, last_theme,
                   placed, brushes, entities>>

\* the script goes on to gen.generate()
BeginGenerate ==
    /\ pc = "setup"
    /\ pc' = StartOfGenerate
    /\ UNCHANGED <<config, grid, rooms, doors, teleporters, end_goal, last_theme,
                   placed, brushes, entities>>

Generate ==
    \/ PlaceRoom
    \/ PlaceSkip
    \/ PlaceRaise
    \/ CreateDoors
    \/ EnsureConnectivity
    \/ PickEndGoal

Next ==
    \/ Generate
    \/ ExportMap

Spec == Init /\ [][Next]_vars

SpecLayout == InitLayout /\ [][Generate]_vars

SpecWide == InitWide /\ [][Next]_vars

SpecMinimal == InitMinimal /\ [][Generate]_vars

SpecCorner == InitCorner /\ [][CreateDoors]_vars

NextSetup ==
    \/ SetTexturePool
    \/ BeginGenerate
    \/ Generate
    \/ ExportMap

SpecSetup == InitSetup /\ [][NextSetup]_vars

(***************************************************************************)
(* Properties.                                                             *)
(***************************************************************************)
Generated == pc \in {"generated", "exported"}
Connected == pc \in {"end_goal", "generated", "exported"}
DoorsCreated == pc \in {"connectivity", "end_goal", "generated", "exported"}

Covering(x, y) == {i \in RoomIdx : <<x, y>> \in RoomCells(Room(i))}

\* C1: any two distinct rooms of the room list cover disjoint sets of grid
\* cells, after every placement.
C1_NoOverlap ==
    \A i \in RoomIdx : \A j \in RoomIdx :
       i # j => RoomCells(Room(i)) \cap RoomCells(Room(j)) = {}

\* three rooms have been placed next to each other on the 3x3 grid
C1_Witness == Generated /\ NRooms = 3

\* C2: every placed room lies inside the grid: 0 <= x, 0 <= y,
\* x + width <= grid_size, y + height <= grid_size, and so does each of its
\* cells.
C2_BoundedPlacement ==
    \A i \in RoomIdx :
       /\ 0 <= Room(i).x /\ 0 <= Room(i).y
       /\ Room(i).x + Room(i).width <= grid_size
       /\ Room(i).y + Room(i).height <= grid_size
       /\ \A c \in RoomCells(Room(i)) : c[1] \in Cells /\ c[2] \in Cells

\* a non-square room reaches the far edge of the grid on both axes
C2_Witness ==
    \E i \in RoomIdx :
       /\ Room(i).width # Room(i).height
       /\ Room(i).x + Room(i).width = grid_size
       /\ Room(i).y + Room(i).height = grid_size

\* C3: after generate(), grid[y][x] is True exactly when the room map holds a
\* room index for the cell, and an occupied cell is covered by exactly one
\* room.
C3_GridMatchesRoomMap ==
    Generated =>
       \A y \in Cells : \A x \in Cells :
          /\ grid[y][x] <=> (_build_room_map[y][x] # -1)
          /\ grid[y][x] => Cardinality(Covering(x, y)) = 1

\* generate() finished with occupied and with free cells
C3_Witness ==
    /\ Generated
    /\ NRooms >= 2
    /\ \E y \in Cells : \E x \in Cells : grid[y][x]
    /\ \E y \in Cells : \E x \in Cells : ~grid[y][x]

(***************************************************************************)
(* The room graph, computed apart from the search of _ensure_connectivity. *)
(***************************************************************************)
DoorEdges == {<<doors[n].room1_idx, doors[n].room2_idx>> : n \in 1 .. Len(doors)}

TargetsOf(m) ==
    {n \in 1 .. Len(teleporters) :
       /\ teleporters[n].type = "destination"
       /\ teleporters[n].targetname = teleporters[m].target}

\* (room of a trigger, room of the destination its target names)
TeleEdges ==
    UNION {{<<teleporters[m].room_idx, teleporters[n].room_idx>> : n \in TargetsOf(m)} :
             m \in {k \in 1 .. Len(teleporters) : teleporters[k].type = "trigger"}}

RECURSIVE Reach(_, _)
Reach(edges, seen) ==
    LET more == {e[2] : e \in {f \in edges : f[1] \in seen}}
                \cup {e[1] : e \in {f \in edges : f[2] \in seen}}
    IN IF more \subseteq seen THEN seen ELSE Reach(edges, seen \cup more)

\* C4: after _ensure_connectivity the graph of doors and teleporter links is
\* connected: a traversal from room 0 reaches every room.
C4_SingleComponent ==
    (Connected /\ NRooms >= 1) =>
       Reach(DoorEdges \cup TeleEdges, {0}) = RoomIdx

\* three rooms without any door were joined by two teleporter pairs
C4_Witness ==
    /\ pc = "end_goal"
    /\ NRooms = 3
    /\ doors = <<>>
    /\ Len(teleporters) = 12

DoorComponent(i) == Reach(DoorEdges, {i})
DoorComponents == {DoorComponent(i) : i \in RoomIdx}

NumPairs == Len(teleporters) \div 6
PairSource(k) == teleporters[6 * (k - 1) + 1].room_idx
PairTarget(k) == teleporters[6 * (k - 1) + 4].room_idx

\* C5: no teleporter when the door graph has at most one component;
\* otherwise exactly (components - 1) pairs, one for each component without
\* room 0, each linking a room of that component with a room of the component
\* of room 0.
C5_HubPairs ==
    Connected =>
       IF Cardinality(DoorComponents) <= 1
       THEN teleporters = <<>>
       ELSE /\ Len(teleporters) = 6 * (Cardinality(DoorComponents) - 1)
            /\ \A C \in DoorComponents :
                  0 \notin C =>
                     /\ Cardinality({k \in 1 .. NumPairs : PairSource(k) \in C}) = 1
                     /\ \A k \in 1 .. NumPairs :
                           PairSource(k) \in C => PairTarget(k) \in DoorComponent(0)

\* the door graph fell into two components, the one of room 0 with two rooms,
\* and one teleporter pair was added
C5_Witness ==
    /\ pc = "end_goal"
    /\ NRooms = 3
    /\ Cardinality(DoorComponents) = 2
    /\ Cardinality(DoorComponent(0)) = 2
    /\ Len(teleporters) = 6

PairRecords(k) == (6 * (k - 1) + 1) .. (6 * k)

\* C6: a pair is two triggers and two destinations; every trigger's target is
\* the targetname of exactly one destination of the whole list, which lies in
\* the other room of the same pair; the two triggers of a pair run in
\* opposite directions.
C6_TeleporterPairs ==
    /\ Len(teleporters) % 6 = 0
    /\ \A k \in 1 .. NumPairs :
          LET recs == PairRecords(k)
              triggers == {n \in recs : teleporters[n].type = "trigger"}
              dests == {n \in recs : teleporters[n].type = "destination"}
          IN /\ Cardinality(triggers) = 2
             /\ Cardinality(dests) = 2
             /\ \A t \in triggers :
                   /\ Cardinality(TargetsOf(t)) = 1
                   /\ TargetsOf(t) \subseteq dests
                   /\ \A d \in TargetsOf(t) :
                         teleporters[d].room_idx # teleporters[t].room_idx
             /\ \E t1 \in triggers : \E t2 \in triggers :
                   \E d1 \in TargetsOf(t1) : \E d2 \in TargetsOf(t2) :
                      /\ t1 # t2
                      /\ teleporters[d1].room_idx = teleporters[t2].room_idx
                      /\ teleporters[d2].room_idx = teleporters[t1].room_idx

\* two pairs are in the list, so a target name has to be unique across pairs
C6_Witness == pc = "end_goal" /\ Len(teleporters) = 12

(***************************************************************************)
(* Door validity, stated on the rectangles.                                *)
(***************************************************************************)
SharesBoundary(a, b) ==
    \/ /\ a.x + a.width = b.x \/ b.x + b.width = a.x
       /\ Min2(a.y + a.height, b.y + b.height) > Max2(a.y, b.y)
    \/ /\ a.y + a.height = b.y \/ b.y + b.height = a.y
       /\ Min2(a.x + a.width, b.x + b.width) > Max2(a.x, b.x)

CornersAt(cx, cy) ==
    {i \in RoomIdx :
       /\ cx \in {Room(i).x, Room(i).x + Room(i).width}
       /\ cy \in {Room(i).y, Room(i).y + Room(i).height}}

\* within 0.1 cell of the lattice point on both axes
NearLattice(pos, cx, cy) ==
    /\ 10 * Abs(pos[1] - cx * cell_size) <= cell_size
    /\ 10 * Abs(pos[2] - cy * cell_size) <= cell_size

\* C7: the two rooms of every door share a grid boundary with positive
\* overlap, and the door is not within 0.1 cell of a lattice point at which
\* three or more rooms have a rectangle corner.
C7_DoorValidity ==
    \A n \in 1 .. Len(doors) :
       /\ doors[n].room1_idx \in RoomIdx
       /\ doors[n].room2_idx \in RoomIdx
       /\ SharesBoundary(Room(doors[n].room1_idx), Room(doors[n].room2_idx))
       /\ \A cx \in 0 .. grid_size : \A cy \in 0 .. grid_size :
             NearLattice(doors[n].position, cx, cy) =>
                Cardinality(CornersAt(cx, cy)) < 3

\* a door was made although three rooms meet at a lattice point of the layout
C7_Witness ==
    /\ DoorsCreated
    /\ Len(doors) >= 1
    /\ \E cx \in 0 .. grid_size : \E cy \in 0 .. grid_size :
          Cardinality(CornersAt(cx, cy)) >= 3

\* C8: no two doors of the door list connect the same unordered pair of
\* rooms.
C8_OneDoorPerPair ==
    \A m \in 1 .. Len(doors) : \A n \in 1 .. Len(doors) :
       m # n => {doors[m].room1_idx, doors[m].room2_idx}
                  # {doors[n].room1_idx, doors[n].room2_idx}

\* two doors were made in one layout
C8_Witness == DoorsCreated /\ Len(doors) >= 2

\* C9: every solid written by export_map has six faces and strictly positive
\* extent on all three axes.
C9_ClosedSolids ==
    pc = "exported" =>
       \A n \in 1 .. Len(brushes) :
          /\ Len(brushes[n].faces) = 6
          /\ brushes[n].x1 < brushes[n].x2
          /\ brushes[n].y1 < brushes[n].y2
          /\ brushes[n].z1 < brushes[n].z2


\* C11: generate() never aborts with an exception: every call of
\* _place_random_room returns a room or None.
C11_NeverAborts == pc # "aborted"

\* C12: a call of set_texture_pool with an unknown pool name or an empty list
\* raises and leaves every pool unchanged; any other call replaces exactly
\* the named pool with the given list and leaves all other pools unchanged.
C12_SetTexturePool ==
    [][calls' = calls + 1 =>
         IF call'.texture_type \notin DOMAIN texture_pools \/ call'.textures = <<>>
         THEN pc' = "config_error" /\ texture_pools' = texture_pools
         ELSE /\ pc' # "config_error"
              /\ DOMAIN texture_pools' = DOMAIN texture_pools
              /\ texture_pools'[call'.texture_type] = call'.textures
              /\ \A p \in DOMAIN texture_pools :
                    p # call'.texture_type => texture_pools'[p] = texture_pools[p]]_vars

\* after a valid call replaced the floor pool, a call raised
C12_Witness ==
    /\ pc = "config_error"
    /\ texture_pools["floor"] = <<"WSWAMP1_4">>
    /\ texture_pools["wall"] = default_texture_pools["wall"]

\* C13: with texture_variety False and the floor, wall and ceiling pools each
\* replaced by the single texture T, every face of every floor, ceiling and
\* wall solid written by export_map, hull included, carries T.
C13_SingleTexture ==
    \A T \in {"WSWAMP1_4"} :
       (/\ pc = "exported"
        /\ ~texture_variety
        /\ texture_pools["floor"] = <<T>>
        /\ texture_pools["wall"] = <<T>>
        /\ texture_pools["ceiling"] = <<T>>)
       => \A n \in 1 .. Len(brushes) :
             brushes[n].kind \in {"hull", "floor", "ceiling", "wall"}
                => BrushTextures(brushes[n]) = {T}

(***************************************************************************)
(* A run with num_rooms = 1.                                               *)
(***************************************************************************)
OneRoomExported == pc = "exported" /\ num_rooms = 1 /\ NRooms = 1

\* one room, no door, no teleporter record, no end goal; the world entity
\* starts with the six hull solids
OneRoomLayout ==
    /\ doors = <<>>
    /\ teleporters = <<>>
    /\ end_goal = -1
    /\ Len(brushes) > 6
    /\ \A n \in 1 .. Len(brushes) :
          /\ n <= 6 => brushes[n].kind = "hull"
          /\ brushes[n].kind \in {"hull", "floor", "ceiling", "wall"}
                => brushes[n].entity = "worldspawn"

CentreOfRoom0 ==
    << (100 * (2 * Room(0).x + Room(0).width) * cell_size) \div 2,
       (100 * (2 * Room(0).y + Room(0).height) * cell_size) \div 2,
       100 * (floor_height + 24) >>

\* C14 as stated: with num_rooms = 1 and the room placed, the result is one
\* room, no door, no teleporter record and no end goal, and the file is the
\* world entity followed by exactly one info_player_start entity at the
\* centre of room 0 and nothing else.
C14_OneRoomFile ==
    OneRoomExported =>
       /\ OneRoomLayout
       /\ entities = << Entity("info_player_start", CentreOfRoom0) >>

\* C14 amended: the info_player_start at the centre of room 0 is the first
\* and the only player start; after it come the lights of the room (at
\* least one), the entities spawned for it and the trigger_hurt of a liquid
\* pool, and no door, teleporter or goal entity.
C14_OneRoomFileAmended ==
    /\ (pc = "exported" /\ num_rooms = 1) => NRooms <= 1
    /\ OneRoomExported =>
          /\ OneRoomLayout
          /\ Len(entities) >= 2
          /\ entities[1] = Entity("info_player_start", CentreOfRoom0)
          /\ \A n \in 2 .. Len(entities) :
                /\ entities[n].classname # "info_player_start"
                /\ entities[n].classname \notin
                      {"trigger_teleport", "info_teleport_destination",
                       "func_door", "trigger_changelevel"}
                /\ entities[n].classname = "trigger_hurt"
                      => RoomType(Room(0)).has_liquid
          /\ \E n \in 2 .. Len(entities) : entities[n].classname = "light"

\* a single lava pool room was exported with its lights, spawned entities
\* and trigger_hurt
C14_Witness ==
    /\ OneRoomExported
    /\ Room(0).type = "lava_pool"
    /\ \E n \in 1 .. Len(entities) : entities[n].classname = "trigger_hurt"
    /\ \E n \in 1 .. Len(entities) : entities[n].classname = "monster_army"

\* C15: _place_random_room makes at most max_attempts candidate draws; a
\* room it returns had an entirely unoccupied rectangle, the call sets to
\* occupied exactly the cells of that rectangle and leaves every other cell
\* unchanged; when it returns None (or raises) the grid is unchanged.
C15_PlacementFrame ==
    /\ [](pc = "place" =>
            \A t \in room_type_names :
               \A n \in AttemptCounts(Attempt(t), 0) : n <= max_attempts)
    /\ [][pc = "place" =>
            IF Len(rooms') = Len(rooms) + 1
            THEN LET r == rooms'[Len(rooms')]
                 IN /\ \A c \in RoomCells(r) :
                          /\ c[1] \in Cells /\ c[2] \in Cells
                          /\ ~grid[c[2]][c[1]]
                    /\ \A y \in Cells : \A x \in Cells :
                          grid'[y][x] = (grid[y][x] \/ <<x, y>> \in RoomCells(r))
            ELSE rooms' = rooms /\ grid' = grid]_vars

\* with two rooms on the grid one call used up its attempts and returned None
C15_Witness == placed = 3 /\ NRooms = 2

(***************************************************************************)
(* The shared boundary of two rectangles, from their coordinates.          *)
(***************************************************************************)
\* a and b meet on a vertical line (one's right edge is the other's left)
MeetEastWest(a, b) ==
    /\ a.x + a.width = b.x \/ b.x + b.width = a.x
    /\ Min2(a.y + a.height, b.y + b.height) > Max2(a.y, b.y)

MeetNorthSouth(a, b) ==
    /\ a.y + a.height = b.y \/ b.y + b.height = a.y
    /\ Min2(a.x + a.width, b.x + b.width) > Max2(a.x, b.x)

\* the line they meet on, in cells
EdgeX(a, b) == IF a.x + a.width = b.x THEN b.x ELSE a.x
EdgeY(a, b) == IF a.y + a.height = b.y THEN b.y ELSE a.y

\* the overlap interval along the boundary, in cells
OverlapLo(a, b) ==
    IF MeetEastWest(a, b) THEN Max2(a.y, b.y) ELSE Max2(a.x, b.x)
OverlapHi(a, b) ==
    IF MeetEastWest(a, b)
    THEN Min2(a.y + a.height, b.y + b.height)
    ELSE Min2(a.x + a.width, b.x + b.width)

HasDoor(i, j) ==
    \E n \in 1 .. Len(doors) : {doors[n].room1_idx, doors[n].room2_idx} = {i, j}

\* C16: a door lies exactly on the shared boundary of its two rooms, at the
\* midpoint of their overlap interval and at least 0.75 cell from each end
\* of it; a pair whose overlap less 2 x 0.75 cells is below 0.5 cell has no
\* door.
C16_DoorPosition ==
    /\ \A n \in 1 .. Len(doors) :
          LET a == Room(doors[n].room1_idx)
              b == Room(doors[n].room2_idx)
              pos == doors[n].position
              across == IF MeetEastWest(a, b) THEN pos[1] ELSE pos[2]
              along == IF MeetEastWest(a, b) THEN pos[2] ELSE pos[1]
              edge == IF MeetEastWest(a, b) THEN EdgeX(a, b) ELSE EdgeY(a, b)
          IN /\ MeetEastWest(a, b) \/ MeetNorthSouth(a, b)
             /\ across = edge * cell_size
             /\ 2 * along = (OverlapLo(a, b) + OverlapHi(a, b)) * cell_size
             /\ 4 * (along - OverlapLo(a, b) * cell_size) >= 3 * cell_size
             /\ 4 * (OverlapHi(a, b) * cell_size - along) >= 3 * cell_size
    /\ DoorsCreated =>
          \A i \in RoomIdx : \A j \in RoomIdx :
             (/\ i # j
              /\ MeetEastWest(Room(i), Room(j)) \/ MeetNorthSouth(Room(i), Room(j))
              /\ 4 * (OverlapHi(Room(i), Room(j)) - OverlapLo(Room(i), Room(j))) - 6 < 2)
             => ~HasDoor(i, j)

\* one pair got a door and another adjacent pair, one cell long, got none
C16_Witness ==
    /\ DoorsCreated
    /\ Len(doors) = 1
    /\ \E i \in RoomIdx : \E j \in RoomIdx :
          /\ i # j
          /\ MeetEastWest(Room(i), Room(j)) \/ MeetNorthSouth(Room(i), Room(j))
          /\ OverlapHi(Room(i), Room(j)) - OverlapLo(Room(i), Room(j)) = 1
          /\ ~HasDoor(i, j)

\* positions handed to the corner check: every sixteenth of a cell
ProbeCoords == {(k * cell_size) \div 16 : k \in 0 .. (16 * grid_size)}

\* C17: _is_door_at_corner_intersection returns True exactly when the
\* position is within 0.1 cell, on both axes, of a lattice point at which
\* three or more rooms have a rectangle corner; in particular it returns
\* False for a position farther than 0.1 cell from every lattice point.
C17_CornerCheck ==
    pc = "doors" =>
       \A door_x \in ProbeCoords : \A door_y \in ProbeCoords :
          _is_door_at_corner_intersection(door_x, door_y)
             <=> \E cx \in 0 .. grid_size : \E cy \in 0 .. grid_size :
                    /\ NearLattice(<<door_x, door_y>>, cx, cy)
                    /\ Cardinality(CornersAt(cx, cy)) >= 3

\* the side of a that faces b
FacingSide(a, b) ==
    IF MeetEastWest(a, b)
    THEN IF a.x + a.width = b.x THEN "east" ELSE "west"
    ELSE IF a.y + a.height = b.y THEN "south" ELSE "north"

Opposite(direction) ==
    CASE direction = "east" -> "west"
      [] direction = "west" -> "east"
      [] direction = "south" -> "north"
      [] direction = "north" -> "south"

Stage(kind) ==
    CASE kind = "hull" -> 1
      [] kind \in {"floor", "ceiling"} -> 2
      [] kind = "wall" -> 3
      [] kind \in {"pit", "liquid", "pillar", "platform"} -> 4
      [] kind \in {"teleporter_pad", "goal_pad"} -> 5

WorldBrushes == {n \in 1 .. Len(brushes) : brushes[n].entity = "worldspawn"}

\* C19: inside the world entity the solids come in the order hull, floors
\* and ceilings, walls, room features (pits, liquid pools, pillars,
\* platforms), pads; no feature solid comes before a floor, ceiling or wall
\* solid.
C19_FixedOrder ==
    pc = "exported" =>
       \A m \in WorldBrushes : \A n \in WorldBrushes :
          m < n => Stage(brushes[m].kind) <= Stage(brushes[n].kind)

\* the solids of one kind that export_map wrote over the grid cell (x, y)
CellSolids(kind, x, y) ==
    {n \in 1 .. Len(brushes) :
        /\ brushes[n].kind = kind
        /\ brushes[n].x1 = S(x * cell_size)
        /\ brushes[n].y1 = S(y * cell_size)
        /\ brushes[n].x2 = S((x + 1) * cell_size)
        /\ brushes[n].y2 = S((y + 1) * cell_size)}

Owners(x, y) == {i \in RoomIdx : <<x, y>> \in RoomCells(Room(i))}

IsPitCell(x, y) ==
    \E i \in Owners(x, y) :
        RoomType(Room(i)).has_pit /\ <<x, y>> \in PitCells(Room(i))

\* C20: every occupied grid cell gets exactly one ceiling solid and, unless
\* it is a pit cell, exactly one floor solid whose top is at floor_height
\* plus the floor offset of the owning room's type; a pit cell gets no floor
\* solid, an unoccupied cell gets neither, every floor and ceiling solid
\* lies over a grid cell, and a cell without a floor belongs to a room whose
\* type has a pit.
C20_FloorsAndCeilings ==
    pc = "exported" =>
       /\ \A n \in 1 .. Len(brushes) :
             brushes[n].kind \in {"floor", "ceiling"} =>
                \E x \in Cells : \E y \in Cells :
                   n \in CellSolids(brushes[n].kind, x, y)
       /\ \A x \in Cells : \A y \in Cells :
             IF Owners(x, y) = {}
             THEN CellSolids("floor", x, y) = {} /\ CellSolids("ceiling", x, y) = {}
             ELSE /\ Cardinality(CellSolids("ceiling", x, y)) = 1
                  /\ IF IsPitCell(x, y)
                     THEN CellSolids("floor", x, y) = {}
                     ELSE /\ Cardinality(CellSolids("floor", x, y)) = 1
                          /\ \A n \in CellSolids("floor", x, y) :
                               \A i \in Owners(x, y) :
                                  brushes[n].z2 =
                                     S(floor_height
                                       + _get_room_floor_offset(Room(i)))
                  /\ CellSolids("floor", x, y) = {} =>
                        \E i \in Owners(x, y) : RoomType(Room(i)).has_pit

\* an exported map with a pit room, whose cells have no floor, next to a
\* sunken or raised room, and with a cell that no room occupies
C20_Witness ==
    /\ pc = "exported"
    /\ \E x \in Cells : \E y \in Cells :
          IsPitCell(x, y) /\ CellSolids("floor", x, y) = {}
    /\ \E x \in Cells : \E y \in Cells :
          \E i \in Owners(x, y) :
             /\ _get_room_floor_offset(Room(i)) # 0
             /\ CellSolids("floor", x, y) # {}
    /\ \E x \in Cells : \E y \in Cells : Owners(x, y) = {}

Directions == {"north", "south", "west", "east"}

OwnerOf(x, y) ==
    IF x \notin Cells \/ y \notin Cells \/ Owners(x, y) = {} THEN -1
    ELSE CHOOSE i \in Owners(x, y) : TRUE

NeighborOf(x, y, d) ==
    CASE d = "north" -> OwnerOf(x, y - 1)
      [] d = "south" -> OwnerOf(x, y + 1)
      [] d = "west" -> OwnerOf(x - 1, y)
      [] d = "east" -> OwnerOf(x + 1, y)

\* the slab in which the wall of the edge d of cell (x, y) lies when the
\* cell's room writes it: [c1, c2] along the edge, [t1, t2] across it
WallSlab(x, y, d) ==
    LET horizontal == d \in {"north", "south"}
        c1 == IF horizontal THEN x * cell_size ELSE y * cell_size
        edge == CASE d = "north" -> y * cell_size
                  [] d = "south" -> (y + 1) * cell_size
                  [] d = "west" -> x * cell_size
                  [] d = "east" -> (x + 1) * cell_size
    IN [horizontal |-> horizontal,
        c1 |-> S(c1), c2 |-> S(c1 + cell_size),
        t1 |-> IF d \in {"north", "west"} THEN S(edge - wall_thickness) ELSE S(edge),
        t2 |-> IF d \in {"north", "west"} THEN S(edge) ELSE S(edge + wall_thickness)]

AlongLo(n, horizontal) == IF horizontal THEN brushes[n].x1 ELSE brushes[n].y1
AlongHi(n, horizontal) == IF horizontal THEN brushes[n].x2 ELSE brushes[n].y2
AcrossLo(n, horizontal) == IF horizontal THEN brushes[n].y1 ELSE brushes[n].x1
AcrossHi(n, horizontal) == IF horizontal THEN brushes[n].y2 ELSE brushes[n].x2

\* solid n is a wall solid lying in the slab of the edge d of cell (x, y)
InSlab(n, x, y, d) ==
    LET slab == WallSlab(x, y, d)
    IN /\ brushes[n].kind = "wall"
       /\ AcrossLo(n, slab.horizontal) = slab.t1
       /\ AcrossHi(n, slab.horizontal) = slab.t2
       /\ slab.c1 <= AlongLo(n, slab.horizontal)
       /\ AlongHi(n, slab.horizontal) <= slab.c2

SlabPieces(x, y, d) == {n \in 1 .. Len(brushes) : InSlab(n, x, y, d)}

RECURSIVE SumAlong(_, _)
SumAlong(set, horizontal) ==
    IF set = {} THEN 0
    ELSE LET n == CHOOSE m \in set : TRUE
         IN (AlongHi(n, horizontal) - AlongLo(n, horizontal))
            + SumAlong(set \ {n}, horizontal)

\* the pieces of the slab lie side by side and together span the cell edge
\* once, each reaching the wall top
SpansEdgeOnce(x, y, d) ==
    LET h == WallSlab(x, y, d).horizontal
        pieces == SlabPieces(x, y, d)
    IN /\ SumAlong(pieces, h) = S(cell_size)
       /\ \A n \in pieces :
             /\ AlongLo(n, h) < AlongHi(n, h)
             /\ brushes[n].z2 = S(wall_top_z)
             /\ \A m \in pieces \ {n} :
                   AlongHi(n, h) <= AlongLo(m, h) \/ AlongHi(m, h) <= AlongLo(n, h)

WritesEdge(x, y, d) ==
    /\ OwnerOf(x, y) # -1
    /\ NeighborOf(x, y, d) # OwnerOf(x, y)
    /\ (NeighborOf(x, y, d) = -1 \/ OwnerOf(x, y) < NeighborOf(x, y, d))

\* C21: the walls are written exactly once for every cell edge between a
\* room cell and a cell of another room, empty space or the outside of the
\* grid (between two rooms by the lower-indexed room only), nothing is
\* written for an edge inside a room, and every wall solid belongs to such
\* an edge.
C21_WallsOncePerEdge ==
    pc = "exported" =>
       /\ \A x \in Cells : \A y \in Cells : \A d \in Directions :
             IF WritesEdge(x, y, d)
             THEN SpansEdgeOnce(x, y, d)
             ELSE SlabPieces(x, y, d) = {}
       /\ \A n \in 1 .. Len(brushes) :
             brushes[n].kind = "wall" =>
                \E x \in Cells : \E y \in Cells : \E d \in Directions :
                   InSlab(n, x, y, d)

\* an exported map where two rooms share an edge, a room has an inner edge
\* and a room borders an empty cell
C21_Witness ==
    /\ pc = "exported"
    /\ \E x \in Cells : \E y \in Cells : \E d \in Directions :
          /\ OwnerOf(x, y) # -1
          /\ NeighborOf(x, y, d) > OwnerOf(x, y)
          /\ SlabPieces(x, y, d) # {}
    /\ \E x \in Cells : \E y \in Cells : \E d \in Directions :
          OwnerOf(x, y) # -1 /\ NeighborOf(x, y, d) = OwnerOf(x, y)
    /\ \E x \in Cells : \E y \in Cells : \E d \in Directions :
          /\ OwnerOf(x, y) # -1
          /\ NeighborOf(x, y, d) = -1
          /\ (CASE d = "north" -> y > 0 [] d = "south" -> y < grid_size - 1
                 [] d = "west" -> x > 0 [] d = "east" -> x < grid_size - 1)

\* the span of a door along its wall
DoorAlong(door) ==
    IF door.direction \in {"north", "south"} THEN door.position[1] ELSE door.position[2]
DoorLo(door) == S(DoorAlong(door)) - S(door_width) \div 2
DoorHi(door) == S(DoorAlong(door)) + S(door_width) \div 2
DoorTop == S(floor_height + door_height)

\* the edges of the lower-indexed room of a door that face the other room
DoorEdgesOf(door) ==
    LET lo == Min2(door.room1_idx, door.room2_idx)
        hi == Max2(door.room1_idx, door.room2_idx)
    IN {e \in Cells \X Cells \X Directions :
          OwnerOf(e[1], e[2]) = lo /\ NeighborOf(e[1], e[2], e[3]) = hi}

DoorOverlapsEdge(door, e) ==
    Max2(WallSlab(e[1], e[2], e[3]).c1, DoorLo(door))
       < Min2(WallSlab(e[1], e[2], e[3]).c2, DoorHi(door))

\* jambs beside the door and a lintel above it
FramedEdge(door, e) ==
    LET slab == WallSlab(e[1], e[2], e[3])
        h == slab.horizontal
        o1 == Max2(slab.c1, DoorLo(door))
        o2 == Min2(slab.c2, DoorHi(door))
        pieces == SlabPieces(e[1], e[2], e[3])
    IN /\ \E m \in pieces :
             /\ AlongLo(m, h) = o1 /\ AlongHi(m, h) = o2
             /\ brushes[m].z1 = DoorTop /\ brushes[m].z2 = S(wall_top_z)
       /\ \A m \in pieces :
             brushes[m].z1 < DoorTop =>
                /\ brushes[m].z1 = S(floor_height)
                /\ AlongHi(m, h) <= o1 \/ AlongLo(m, h) >= o2
       /\ SpansEdgeOnce(e[1], e[2], e[3])

FullEdge(e) ==
    LET slab == WallSlab(e[1], e[2], e[3])
        pieces == SlabPieces(e[1], e[2], e[3])
    IN /\ Cardinality(pieces) = 1
       /\ \A m \in pieces :
             /\ AlongLo(m, slab.horizontal) = slab.c1
             /\ AlongHi(m, slab.horizontal) = slab.c2
             /\ brushes[m].z1 = S(floor_height)
             /\ brushes[m].z2 = S(wall_top_z)

\* a wall solid reaches into the opening of the door: door_width wide along
\* the wall, through the wall on either side of the boundary, from
\* floor_height up to door_height
CoversOpening(m, door) ==
    LET h == door.direction \in {"north", "south"}
        edge == IF h THEN S(door.position[2]) ELSE S(door.position[1])
    IN /\ brushes[m].kind = "wall"
       /\ AlongLo(m, h) < DoorHi(door) /\ DoorLo(door) < AlongHi(m, h)
       /\ AcrossLo(m, h) < edge + S(wall_thickness)
       /\ edge - S(wall_thickness) < AcrossHi(m, h)
       /\ brushes[m].z1 < DoorTop /\ S(floor_height) < brushes[m].z2

\* C22: for every door, the wall between its two rooms is written as jambs
\* beside the door and a lintel from door height to the wall top on the
\* boundary cells the door overlaps, as a full wall on the boundary cells it
\* does not overlap, and no wall solid covers the door opening.
C22_DoorFrame ==
    pc = "exported" =>
       \A n \in 1 .. Len(doors) :
          /\ DoorEdgesOf(doors[n]) # {}
          /\ \A e \in DoorEdgesOf(doors[n]) :
                IF DoorOverlapsEdge(doors[n], e)
                THEN FramedEdge(doors[n], e)
                ELSE FullEdge(e)
          /\ \A m \in 1 .. Len(brushes) : ~CoversOpening(m, doors[n])

\* an exported map with a door in the middle cell of a boundary three cells
\* long: one framed cell between two full walls
C22_Witness ==
    /\ pc = "exported"
    /\ \E n \in 1 .. Len(doors) :
          /\ \E e \in DoorEdgesOf(doors[n]) :
                DoorOverlapsEdge(doors[n], e) /\ FramedEdge(doors[n], e)
          /\ \E e \in DoorEdgesOf(doors[n]) :
                ~DoorOverlapsEdge(doors[n], e) /\ FullEdge(e)

\* C23: the draws of a run come in the phase order placement attempts,
\* theme and type choices, door textures, teleporter rooms, feature and
\* entity draws; in particular, whenever generate() is about to make the
\* draws of a placement attempt, no theme has been drawn yet.
C23_PhaseOrder ==
    pc = "place" => last_theme = "none"

CeilingOverride(room) == RoomType(room).ceiling_texture

\* C24: every room carries a theme of the theme table, a floor and a wall
\* texture from that theme's lists, and a ceiling texture from the theme's
\* ceiling list unless its type declares a ceiling texture, which then is
\* the room's ceiling texture whatever the theme.
C24_RoomTextures ==
    \A i \in RoomIdx :
       LET room == Room(i)
       IN /\ room.theme \in DOMAIN texture_themes
          /\ room.theme \in SeqRange(theme_names)
          /\ room.floor_texture \in SeqRange(texture_themes[room.theme].floor)
          /\ room.wall_texture \in SeqRange(texture_themes[room.theme].wall)
          /\ IF CeilingOverride(room) # "none"
             THEN room.ceiling_texture = CeilingOverride(room)
             ELSE room.ceiling_texture
                     \in SeqRange(texture_themes[room.theme].ceiling)

\* generate() has returned with a room whose type overrides the ceiling and
\* a room whose type does not
C24_Witness ==
    /\ pc = "generated"
    /\ \E i \in RoomIdx :
          /\ CeilingOverride(Room(i)) # "none"
          /\ Room(i).ceiling_texture
                \notin SeqRange(texture_themes[Room(i).theme].ceiling)
    /\ \E i \in RoomIdx : CeilingOverride(Room(i)) = "none"

PlatformsOf(i) ==
    {n \in 1 .. Len(brushes) :
        brushes[n].kind = "platform" /\ brushes[n].room_idx = i}

\* C25: a room with platforms gets min(platform_count, 3) of them, and the
\* tops of its platforms rise strictly in the order in which they are
\* written.
C25_PlatformHeights ==
    pc = "exported" =>
       \A i \in RoomIdx :
          /\ RoomType(Room(i)).has_platforms =>
                Cardinality(PlatformsOf(i))
                   = Min2(RoomType(Room(i)).platform_count, 3)
          /\ \A m \in PlatformsOf(i) : \A n \in PlatformsOf(i) :
                m < n => brushes[m].z2 < brushes[n].z2

\* the volume the hull encloses: between its walls, above the top of its
\* floor and below the bottom of its ceiling
HullInnerLo == S(-padding + wall_thickness)
HullInnerHi == S(grid_size * cell_size + padding - wall_thickness)
HullInnerBottom == S(-floor_thick)
HullInnerTop == S(map_top_z)

InsideHull(b) ==
    /\ HullInnerLo <= Min2(b.x1, b.x2) /\ Max2(b.x1, b.x2) <= HullInnerHi
    /\ HullInnerLo <= Min2(b.y1, b.y2) /\ Max2(b.y1, b.y2) <= HullInnerHi
    /\ HullInnerBottom <= Min2(b.z1, b.z2) /\ Max2(b.z1, b.z2) <= HullInnerTop

\* C26: every solid of the world entity other than the hull itself lies
\* inside the volume the hull encloses.
C26_InsideHull ==
    pc = "exported" =>
       \A n \in WorldBrushes :
          brushes[n].kind # "hull" => InsideHull(brushes[n])

\* the grid cell that holds the centre of room 0, where export_map puts the
\* player start
SpawnCell ==
    <<Room(0).x + Room(0).width \div 2, Room(0).y + Room(0).height \div 2>>

\* C27: the player start stands on a floor: the cell holding the centre of
\* room 0 is not a cell whose floor is suppressed for a pit, and has its
\* floor solid, whatever the type of room 0.
C27_PlayerStartOnFloor ==
    (pc = "exported" /\ NRooms > 0) =>
       /\ entities[1].classname = "info_player_start"
       /\ SpawnCell \notin skip_floor_cells
       /\ CellSolids("floor", SpawnCell[1], SpawnCell[2]) # {}

\* C28: every placed room is at least one cell wide and one cell high, and
\* so covers at least one grid cell.
C28_RoomsCoverACell ==
    \A i \in RoomIdx :
       /\ Room(i).width >= 1
       /\ Room(i).height >= 1
       /\ RoomCells(Room(i)) # {}

Meets(a, b) == MeetEastWest(a, b) \/ MeetNorthSouth(a, b)
SharedLength(a, b) == OverlapHi(a, b) - OverlapLo(a, b)

DoorsOfPair(i, j) ==
    {n \in 1 .. Len(doors) : {doors[n].room1_idx, doors[n].room2_idx} = {i, j}}

\* every pair of rooms that meets along two cells or more has exactly one
\* door, and every pair that meets along one cell has none
WideBoundariesHaveDoors ==
    \A i \in RoomIdx : \A j \in RoomIdx :
       (i < j /\ Meets(Room(i), Room(j))) =>
          IF SharedLength(Room(i), Room(j)) >= 2
          THEN Cardinality(DoorsOfPair(i, j)) = 1
          ELSE DoorsOfPair(i, j) = {}

\* C29: in every layout that generate() produces, each pair of rooms whose
\* shared boundary is at least two cells long receives exactly one door
\* (neither the ownership check nor the corner check rejects it), and each
\* pair whose shared boundary is one cell long receives none.
C29_DoorForEveryWideBoundary ==
    DoorsCreated => WideBoundariesHaveDoors

PitRooms == {i \in RoomIdx : RoomType(Room(i)).has_pit}

\* C30: every pit room keeps walkable floor around its pit: the cells whose
\* floor is suppressed are a proper subset of the room's cells, and at
\* least one cell of the room has its floor solid.
C30_PitLeavesFloor ==
    pc = "exported" =>
       \A i \in PitRooms :
          /\ PitCells(Room(i)) \subseteq RoomCells(Room(i))
          /\ PitCells(Room(i)) # RoomCells(Room(i))
          /\ \E c \in RoomCells(Room(i)) : CellSolids("floor", c[1], c[2]) # {}

=============================================================================
